---- MODULE Spec2Model ----
(***************************************************************************)
(* Routing engine and stream lifecycle of the tinyhal configuration        *)
(* manager (src/configmgr/audio_config.c).                                 *)
(*                                                                         *)
(* A device bitmask (uint32_t) is represented by the set of the numbers of *)
(* its set bits: & is \cap, | is \cup, x & ~y is x \ y, 0 is {}.           *)
(***************************************************************************)
EXTENDS Integers, Naturals, Sequences, FiniteSets, TLC

VARIABLES
    cfg,              \* which loaded configuration the manager was built from
    use_count,        \* struct device . use_count, per device index
    ref_count,        \* struct stream . ref_count, per stream index
    current_devices,  \* struct stream . current_devices, per stream index
    held,             \* history: outstanding successful acquisitions per stream
    last,             \* history: the API call executed last and what it did
    routers,          \* history: per device, streams that switched it on
    clean,            \* history: per device, on/off requests were balanced
    onW,              \* history: 'on' path executions in the current episode
    offW,             \* history: 'off' path executions in the current episode
    lock,             \* config_mgr . lock: 0 = free, else the owning thread
    tpc,              \* per thread: position inside its current API call
    targ,             \* per thread: the handles it owns (own) and the
                      \* arguments and locals of its current call
    slock,            \* per stream: the thread that holds the HAL's lock of
                      \* the stream (stream_in_common . lock), 0 = free
    mixer,            \* names of the controls the sound card has
    alsa,             \* struct mixer of tinyalsa: the controls it lists (ctl)
                      \* and, history, the calls made to it by the call
                      \* executed last (calls)
    ctl_array,        \* struct path . ctl_array of the path whose controls
                      \* are bound and written on their own
    bound,            \* the controls of the configuration whose ctl_ref is valid
    wr,               \* history: the mixer writes of the call executed last
    ret,              \* history: the value the call executed last returned
    pin,              \* the inputs of a call checked on its own
    state             \* struct parse_state and the manager being built, while
                      \* init_audio_config runs

vars == <<cfg, use_count, ref_count, current_devices, held, last,
          routers, clean, onW, offW, lock, tpc, targ, slock, mixer, alsa,
          ctl_array, bound, wr, ret, pin, state>>

ghost == <<routers, clean, onW, offW>>
mt == <<lock, tpc, targ, slock>>
ctlv == <<mixer, alsa, ctl_array, bound, wr, ret, pin>>

(***************************************************************************)
(* Bounds of the model                                                     *)
(***************************************************************************)
MaxUse == 3         \* no call is started that would take a use_count above
MaxDrift == 1       \* ... or below -MaxDrift
MaxUnderflow == 1   \* release_stream is not called at ref_count = -MaxUnderflow
IntBits == 8        \* an int has IntBits bits and a long long twice as many

(***************************************************************************)
(* Constants of the program                                                *)
(***************************************************************************)
e_path_id_off == 0
e_path_id_on == 1
e_path_id_custom_base == 2
NoPath == -1

\* errno values
ENOENT == 2
ENOMEM == 12
EINVAL == 22
EIO == 5
ENOSYS == 38

\* The values of an int and the conversion of a number to a signed integer
\* of the given width (two's complement)
INT_MIN == -(2 ^ (IntBits - 1))
INT_MAX == (2 ^ (IntBits - 1)) - 1

ToSigned(x, bits) ==
    IF (x % (2 ^ bits)) >= 2 ^ (bits - 1)
    THEN (x % (2 ^ bits)) - (2 ^ bits)
    ELSE x % (2 ^ bits)

ToInt(x) == ToSigned(x, IntBits)
ToLongLong(x) == ToSigned(x, 2 * IntBits)

\* a / b of C for b > 0: the quotient is truncated toward zero
c_div(a, b) == IF a >= 0 THEN a \div b ELSE -((-a) \div b)

AUDIO_DEVICE_BIT_IN == {31}
AUDIO_DEVICE_OUT_ALL == (0..24) \cup {30}
AUDIO_DEVICE_IN_ALL == (0..20) \cup {30, 31}

device_table(name) ==
    CASE name = "global"    -> {}
      [] name = "speaker"   -> {1}
      [] name = "earpiece"  -> {0}
      [] name = "headset"   -> {2}
      [] name = "headset_in" -> {31, 4}
      [] name = "headphone" -> {3}
      [] name = "sco"       -> {4, 5, 6}
      [] name = "sco_in"    -> {31, 3}
      [] name = "a2dp"      -> {7, 8, 9}
      [] name = "usb"       -> {13, 14}
      [] name = "mic"       -> {31, 2}
      [] name = "back mic"  -> {31, 7}
      [] name = "voice"     -> {31, 6}
      [] name = "aux"       -> {31, 5}

StreamTypes == {"e_stream_out_pcm", "e_stream_in_pcm", "e_stream_out_compress",
                "e_stream_in_compress", "e_stream_out_hw", "e_stream_in_hw",
                "e_stream_global"}

\* stream_is_input with the PCM case forgotten
stream_is_input_no_pcm(s) ==
    s.type \in {"e_stream_in_compress", "e_stream_in_hw"}

stream_is_input(s) ==
    s.type \in {"e_stream_in_pcm", "e_stream_in_compress", "e_stream_in_hw"}

(***************************************************************************)
(* Loaded configurations: what parse_device_start / parse_path_start /     *)
(* parse_stream_start / parse_enable_disable_start leave in the manager.   *)
(* Path ids: 0 "off", 1 "on", 2 and 3 the first two custom path names.     *)
(***************************************************************************)
NoName == "-"

\* The index of a <ctl> without index attribute (0xFFFFFFFF)
INVALID_CTL_INDEX == -1

\* struct ctl of a <ctl name=.. val=..> element: id tells the elements
\* apart, valid says that val is a number
Ctl(id, name, value) ==
    [id |-> id, name |-> name, index |-> INVALID_CTL_INDEX, value |-> value,
     valid |-> TRUE]

\* a <ctl> whose val is not a number
BadCtl(id, name) ==
    [id |-> id, name |-> name, index |-> INVALID_CTL_INDEX, value |-> 0,
     valid |-> FALSE]

\* A device whose paths hold no controls: paths[i] is the id of its i-th
\* <path>, ctls[i] the controls of that path
Device(name, paths) ==
    [type |-> device_table(name), paths |-> paths,
     ctls |-> [i \in 1..Len(paths) |-> <<>>]]

DeviceCtls(name, paths, ctls) ==
    [type |-> device_table(name), paths |-> paths, ctls |-> ctls]

\* A <usecase>: cases[i] is the name of its i-th <case>, ctls[i] the
\* controls of that case
UseCase(name, cases, ctls) == [name |-> name, cases |-> cases, ctls |-> ctls]

\* struct stream_control as parse_stream_ctl_start fills it
\* (<ctl name=.. function="leftvol"|"rightvol" index=.. min=.. max=..>);
\* valid: its ctl_ref is valid
StreamControl(name, index, min, max) ==
    [valid |-> TRUE, ctl |-> name, index |-> index, min |-> min, max |-> max]

\* the stream_control new_stream leaves
NoControl == [valid |-> FALSE, ctl |-> NoName, index |-> 0, min |-> 0, max |-> 0]

\* A stream without volume controls and without use cases
Stream(name, type, instances, enable, disable) ==
    [name |-> name, type |-> type, max_ref_count |-> instances,
     enable_path |-> enable, disable_path |-> disable,
     volume_left |-> NoControl, volume_right |-> NoControl,
     usecase_array |-> <<>>]

\* left / right: controls.volume_left / volume_right of the stream;
\* usecases: its <usecase> elements
Controls(s, left, right, usecases) ==
    [s EXCEPT !.volume_left = left, !.volume_right = right,
              !.usecase_array = usecases]

Configs ==
  << \* 1: output devices declared before the input device; every device
     \*    declares both 'on' and 'off'; two declarations of one stream type
     [devices |-> << Device("global", <<1, 2, 3, 0>>),
                     Device("speaker", <<1, 2, 0, 3>>),
                     Device("headset", <<2, 3, 0, 1>>),
                     Device("mic", <<1, 0, 2, 3>>) >>,
      streams |-> << Stream(NoName, "e_stream_out_pcm", 1, 2, 3),
                     Stream(NoName, "e_stream_out_pcm", 2, NoPath, NoPath),
                     Stream(NoName, "e_stream_in_pcm", 1, 2, 3) >>,
      masks |-> {{}, {1}, {2}, {1, 2}, {31, 2}}],
     \* 2: "mic" (0x80000004) declared before "headset" (0x4)
     [devices |-> << Device("global", <<1, 2, 3, 0>>),
                     Device("mic", <<1, 0, 2, 3>>),
                     Device("headset", <<2, 3, 0, 1>>) >>,
      streams |-> << Stream(NoName, "e_stream_out_pcm", 1, 2, 3),
                     Stream(NoName, "e_stream_in_pcm", 2, NoPath, NoPath) >>,
      masks |-> {{}, {2}, {2, 26}, {31}, {31, 2}}],
     \* 3: a device covering several bits, no global device, a named stream
     [devices |-> << Device("sco", <<1, 0, 2>>) >>,
      streams |-> << Controls(Stream("hw", "e_stream_out_hw", 1, NoPath, NoPath),
                              StreamControl("HW Volume", 0, 0, 100), NoControl,
                              << UseCase("mode", <<"idle">>, << <<>> >>),
                                 UseCase("mode", <<"voice">>, << <<>> >>) >>),
                     Controls(Stream(NoName, "e_stream_out_pcm", 2, 2, NoPath),
                              StreamControl("Left Volume", 0, 0, 100),
                              StreamControl("Right Volume", 1, 0, 100),
                              <<>>) >>,
      masks |-> {{}, {4}, {5}, {4, 5}}],
     \* 4: devices that declare only one of 'on' / 'off'
     [devices |-> << Device("earpiece", <<0>>),
                     Device("headphone", <<1, 3>>),
                     Device("global", <<3, 0>>) >>,
      streams |-> << Stream("hw", "e_stream_out_hw", 2, NoPath, 3),
                     Stream(NoName, "e_stream_out_pcm", 1, 1, 0) >>,
      masks |-> {{}, {0}, {3}, {0, 3}}],
     \* 5: paths and cases with controls; "EQ" gets a value that is no number
     [devices |-> << DeviceCtls("speaker", <<1, 0>>,
                        << << Ctl(1, "SPK Switch", 1), Ctl(2, "DSP Mode", 3),
                              Ctl(3, "SPK Gain", 5) >>,
                           << Ctl(4, "SPK Switch", 0), Ctl(5, "DSP Mode", 0) >> >>) >>,
      streams |-> << Controls(Stream(NoName, "e_stream_out_pcm", 2, NoPath, NoPath),
                       NoControl, NoControl,
                       << UseCase("mode", <<"voice">>,
                             << << Ctl(6, "DSP Mode", 1), BadCtl(7, "EQ"),
                                   Ctl(8, "SPK Gain", 7) >> >>),
                          UseCase("mode", <<"music", "voice">>,
                             << << Ctl(9, "SPK Gain", 2) >>,
                                << Ctl(10, "DSP Mode", 2) >> >>) >>) >>,
      masks |-> {{}, {1}}],
     \* 6: one device, a named and an anonymous stream of one instance each
     [devices |-> << Device("sco", <<1, 0>>) >>,
      streams |-> << Controls(Stream("hw", "e_stream_out_hw", 1, NoPath, NoPath),
                              StreamControl("Left Volume", 0, 0, 100),
                              StreamControl("Right Volume", 1, 0, 100),
                              << UseCase("mode", <<"voice">>, << <<>> >>) >>),
                     Stream(NoName, "e_stream_out_pcm", 1, NoPath, NoPath) >>,
      masks |-> {{}, {4}}] >>

\* The configurations of the specifications of the routing calls
SeqConfigs == 1..4

\* The configuration of the specifications of the stream-control calls and
\* of the calls made from several threads
MTConfig == 3

\* The configuration of the specification of the calls that write controls
CtlConfig == 5

\* The configuration of the specification of the calls made under the
\* HAL's stream locks
LockConfig == 6

device_array == Configs[cfg].devices
stream_array == Configs[cfg].streams
Masks == Configs[cfg].masks

Devs == 1..Len(device_array)
Streams == 1..Len(stream_array)
Names == {"hw", "nope"}

\* config_mgr.anon_stream_array / named_stream_array, as indices into
\* stream_array in declaration order
anon_stream_array == SelectSeq([i \in Streams |-> i],
                               LAMBDA i : stream_array[i].name = NoName)
named_stream_array == SelectSeq([i \in Streams |-> i],
                                LAMBDA i : stream_array[i].name # NoName)

Range(seq) == {seq[i] : i \in 1..Len(seq)}

\* Every <ctl> of the paths and of the cases of the configuration
PathCtls ==
    UNION {UNION {Range(device_array[d].ctls[i]) :
                     i \in 1..Len(device_array[d].ctls)} : d \in Devs}
UseCases == UNION {Range(stream_array[s].usecase_array) : s \in Streams}
CaseCtls ==
    UNION {UNION {Range(u.ctls[c]) : c \in 1..Len(u.ctls)} : u \in UseCases}
AllCtls == PathCtls \cup CaseCtls

NoStream == 0

\* pin when the call made is not checked on inputs of its own
NoInput == <<>>

\* The threads that call the API
Threads == {1, 2}

(***************************************************************************)
(* Controls                                                                *)
(*                                                                         *)
(* The functions thread a record bs = [bound, wr]: the controls whose      *)
(* ctl_ref is valid and the mixer writes made so far in this call.         *)
(***************************************************************************)
\* One call of mixer_ctl_set_value
MixerWrite(ctl, index, value) == [ctl |-> ctl, index |-> index, value |-> value]

\* ctl_open of control c: [ret, bound].  A control the mixer does not have
\* gives -ENOENT, a value that is no number -EINVAL.
ctl_open(b, c) ==
    IF c.id \in b THEN [ret |-> 0, bound |-> b]
    ELSE IF c.name \notin mixer THEN [ret |-> -ENOENT, bound |-> b]
    ELSE IF ~c.valid THEN [ret |-> -EINVAL, bound |-> b]
    ELSE [ret |-> 0, bound |-> b \cup {c.id}]

\* One pass of the loop of apply_ctls_l on a control that opens
apply_ctl(bs, c) ==
    [bound |-> ctl_open(bs.bound, c).bound,
     wr |-> Append(bs.wr, MixerWrite(c.name, c.index, c.value))]

apply_ctl_if_open(bs, c) ==
    IF ctl_open(bs.bound, c).ret # 0 THEN bs ELSE apply_ctl(bs, c)

\* apply_ctls_l going on to the next control when one does not open
RECURSIVE apply_ctls_l_continue(_, _, _)
apply_ctls_l_continue(bs, ctls, i) ==
    IF i > Len(ctls) THEN bs
    ELSE apply_ctls_l_continue(apply_ctl_if_open(bs, ctls[i]), ctls, i + 1)

\* apply_ctls_l from control i on: the loop ends at the first control that
\* does not open
RECURSIVE apply_ctls_l(_, _, _)
apply_ctls_l(bs, ctls, i) ==
    IF i > Len(ctls) THEN bs
    ELSE IF ctl_open(bs.bound, ctls[i]).ret # 0 THEN bs
    ELSE apply_ctls_l(apply_ctl(bs, ctls[i]), ctls, i + 1)

\* apply_path_l on path number idx of device d
apply_path_l(bs, d, idx) == apply_ctls_l(bs, device_array[d].ctls[idx], 1)

(***************************************************************************)
(* Routing control                                                         *)
(*                                                                         *)
(* The _l functions thread a record st = [use_count, ev]: the device       *)
(* use counts and the sequence of path requests made so far in this call.  *)
(* An event [dev, idx, id, wrote, phase] is one call of                    *)
(* apply_device_path_l on path number idx (id its path id) of device dev;  *)
(* wrote says whether apply_path_l ran, i.e. the controls were written.    *)
(***************************************************************************)
Ev(d, idx, id, wrote, phase) ==
    [dev |-> d, idx |-> idx, id |-> id, wrote |-> wrote, phase |-> phase]

\* apply_device_path_l without the "already enabled" early return
apply_device_path_l_on_always(st, d, idx, phase) ==
    LET id == device_array[d].paths[idx] IN
    IF id = e_path_id_off THEN
        LET uc == st.use_count[d] - 1 IN
        [use_count |-> [st.use_count EXCEPT ![d] = uc],
         ev |-> Append(st.ev, Ev(d, idx, id, ~(uc > 0), phase))]
    ELSE IF id = e_path_id_on THEN
        LET uc == st.use_count[d] + 1 IN
        [use_count |-> [st.use_count EXCEPT ![d] = uc],
         ev |-> Append(st.ev, Ev(d, idx, id, TRUE, phase))]
    ELSE
        [st EXCEPT !.ev = Append(@, Ev(d, idx, id, TRUE, phase))]

\* apply_device_path_l counting every path but 'off' the way it counts 'on'
apply_device_path_l_all_counted(st, d, idx, phase) ==
    LET id == device_array[d].paths[idx] IN
    IF id = e_path_id_off THEN
        LET uc == st.use_count[d] - 1 IN
        [use_count |-> [st.use_count EXCEPT ![d] = uc],
         ev |-> Append(st.ev, Ev(d, idx, id, ~(uc > 0), phase))]
    ELSE
        LET uc == st.use_count[d] + 1 IN
        [use_count |-> [st.use_count EXCEPT ![d] = uc],
         ev |-> Append(st.ev, Ev(d, idx, id, ~(uc > 1), phase))]

apply_device_path_l(st, d, idx, phase) ==
    LET id == device_array[d].paths[idx] IN
    IF id = e_path_id_off THEN
        LET uc == st.use_count[d] - 1 IN
        [use_count |-> [st.use_count EXCEPT ![d] = uc],
         ev |-> Append(st.ev, Ev(d, idx, id, ~(uc > 0), phase))]
    ELSE IF id = e_path_id_on THEN
        LET uc == st.use_count[d] + 1 IN
        [use_count |-> [st.use_count EXCEPT ![d] = uc],
         ev |-> Append(st.ev, Ev(d, idx, id, ~(uc > 1), phase))]
    ELSE
        [st EXCEPT !.ev = Append(@, Ev(d, idx, id, TRUE, phase))]

\* The single walk of the path list: f[1], f[2] are found_paths[0..1] as
\* path numbers, 0 for NULL; f[3] says that the loop has hit a break.
find_step(f, id, i, first_id, second_id) ==
    IF id = first_id
    THEN <<i, f[2], (f[2] # 0) \/ (first_id = second_id)>>
    ELSE IF id = second_id
    THEN <<f[1], i, f[1] # 0>>
    ELSE f

RECURSIVE find_paths(_, _, _, _, _)
find_paths(paths, i, f, first_id, second_id) ==
    IF (i > Len(paths)) \/ f[3] THEN f
    ELSE find_paths(paths, i + 1,
                    find_step(f, paths[i], i, first_id, second_id),
                    first_id, second_id)

apply_found(st, d, idx, phase) ==
    IF idx # 0 THEN apply_device_path_l(st, d, idx, phase) ELSE st

apply_both(st, d, found, phase) ==
    apply_found(apply_found(st, d, found[1], phase), d, found[2], phase)

\* apply_paths_by_id_l applying found_paths[1] before found_paths[0]
apply_paths_by_id_l_swapped(st, d, first_id, second_id, phase) ==
    apply_found(apply_found(st, d,
            find_paths(device_array[d].paths, 1, <<0, 0, FALSE>>,
                       first_id, second_id)[2], phase),
        d, find_paths(device_array[d].paths, 1, <<0, 0, FALSE>>,
                      first_id, second_id)[1], phase)

apply_paths_by_id_l(st, d, first_id, second_id, phase) ==
    apply_both(st, d,
               find_paths(device_array[d].paths, 1, <<0, 0, FALSE>>,
                          first_id, second_id), phase)

device_matches(d, devices, input_flag) ==
    /\ (device_array[d].type \cap input_flag) = input_flag
    /\ (device_array[d].type \cap devices) # {}

RECURSIVE devices_loop(_, _, _, _, _, _, _)
devices_loop(st, d, devices, input_flag, first_id, second_id, phase) ==
    IF (d > Len(device_array)) \/ (devices = {}) THEN st
    ELSE devices_loop(
            IF device_matches(d, devices, input_flag)
            THEN apply_paths_by_id_l(st, d, first_id, second_id, phase) ELSE st,
            d + 1,
            IF device_matches(d, devices, input_flag)
            THEN devices \ device_array[d].type ELSE devices,
            input_flag, first_id, second_id, phase)

apply_paths_to_devices_l(st, devices, first_id, second_id, phase) ==
    devices_loop(st, 1, devices \ AUDIO_DEVICE_BIT_IN,
                 devices \cap AUDIO_DEVICE_BIT_IN, first_id, second_id, phase)

apply_paths_to_global_l(st, first_id, second_id, phase) ==
    LET globals == {d \in Devs : device_array[d].type = {}} IN
    IF globals = {} THEN st
    ELSE LET d == CHOOSE g \in globals : \A h \in globals : g <= h
         IN  apply_paths_by_id_l(st, d, first_id, second_id, phase)

\* apply_route, first part: the direction test and the masking of the
\* requested devices.  The result is [ok, devices].
route_devices(s, devices) ==
    IF devices # {} THEN
        IF (devices \cap AUDIO_DEVICE_BIT_IN) # {} THEN
            IF ~stream_is_input(stream_array[s])
            THEN [ok |-> FALSE, devices |-> devices]
            ELSE [ok |-> TRUE,
                  devices |-> (devices \cap AUDIO_DEVICE_IN_ALL)
                                  \cup AUDIO_DEVICE_BIT_IN]
        ELSE
            IF stream_is_input(stream_array[s])
            THEN [ok |-> FALSE, devices |-> devices]
            ELSE [ok |-> TRUE, devices |-> devices \cap AUDIO_DEVICE_OUT_ALL]
    ELSE [ok |-> TRUE, devices |-> devices]

\* enabling computed without masking out the devices already routed
route_enabling_all(devices, cur) ==
    devices \cup (devices \cap AUDIO_DEVICE_BIT_IN)

route_enabling(devices, cur) ==
    (devices \ cur) \cup (devices \cap AUDIO_DEVICE_BIT_IN)

route_disabling(devices, cur) ==
    (cur \ devices) \cup (devices \cap AUDIO_DEVICE_BIT_IN)

\* apply_route, the part under the lock.  devices is already masked.
route_locked(st, s, devices, cur) ==
    LET st1 == apply_paths_to_devices_l(st, route_disabling(devices, cur),
                   stream_array[s].disable_path, e_path_id_off, "disabling")
    IN  apply_paths_to_devices_l(st1, route_enabling(devices, cur),
                   e_path_id_on, stream_array[s].enable_path, "enabling")

(***************************************************************************)
(* Stream control                                                          *)
(***************************************************************************)
\* set_vol_ctl with the scaling computed in int
set_vol_ctl_int(volctl, percent) ==
    CASE percent = 0 -> volctl.min
      [] percent = 100 -> volctl.max
      [] OTHER -> ToInt(volctl.min
                      + c_div(ToInt(ToInt(volctl.max - volctl.min) * percent), 100))

\* set_vol_ctl: the value passed to mixer_ctl_set_value; lmin, lmax and
\* lval are long long, val is an int
set_vol_ctl(volctl, percent) ==
    CASE percent = 0 -> volctl.min
      [] percent = 100 -> volctl.max
      [] OTHER -> ToInt(ToLongLong(volctl.min
                      + c_div(ToLongLong(ToLongLong(volctl.max - volctl.min)
                                       * percent), 100)))

set_vol_write(volctl, percent) ==
    IF volctl.valid
    THEN << MixerWrite(volctl.ctl, volctl.index, set_vol_ctl(volctl, percent)) >>
    ELSE <<>>

\* "Control is mono so average left and right"
volume_left_pc(stream, left_pc, right_pc) ==
    IF stream.volume_left.valid /\ ~stream.volume_right.valid
    THEN c_div(left_pc + right_pc, 2)
    ELSE left_pc

\* set_hw_volume testing the range of the left percentage only
set_hw_volume_left_range(stream, left_pc, right_pc) ==
    IF left_pc < 0 \/ left_pc > 100 THEN [ret |-> -EINVAL, wr |-> <<>>]
    ELSE [ret |-> IF stream.volume_left.valid \/ stream.volume_right.valid
                  THEN 0 ELSE -ENOSYS,
          wr |-> set_vol_write(stream.volume_left,
                               volume_left_pc(stream, left_pc, right_pc))
                 \o set_vol_write(stream.volume_right, right_pc)]

\* set_hw_volume on a struct stream: [ret, wr], the value returned and the
\* mixer writes made
set_hw_volume_result(stream, left_pc, right_pc) ==
    IF left_pc < 0 \/ left_pc > 100 THEN [ret |-> -EINVAL, wr |-> <<>>]
    ELSE IF right_pc < 0 \/ right_pc > 100 THEN [ret |-> -EINVAL, wr |-> <<>>]
    ELSE [ret |-> IF stream.volume_left.valid \/ stream.volume_right.valid
                  THEN 0 ELSE -ENOSYS,
          wr |-> set_vol_write(stream.volume_left,
                               volume_left_pc(stream, left_pc, right_pc))
                 \o set_vol_write(stream.volume_right, right_pc)]

find_named_stream(name) ==
    LET hits == {k \in 1..Len(named_stream_array) :
                    stream_array[named_stream_array[k]].name = name}
    IN  IF hits = {} THEN NoStream
        ELSE named_stream_array[CHOOSE k \in hits : \A j \in hits : k <= j]

\* open_stream_l with <= in place of < in the instance test
open_stream_l_off_by_one(st, s, ref) ==
    IF ref <= stream_array[s].max_ref_count THEN
        [ok |-> TRUE, ref |-> ref + 1,
         st |-> IF ref + 1 = 1
                THEN apply_paths_to_global_l(st, e_path_id_on,
                                             stream_array[s].enable_path, "open")
                ELSE st]
    ELSE [ok |-> FALSE, ref |-> ref, st |-> st]

\* open_stream_l: [ok, ref, st]
open_stream_l(st, s, ref) ==
    IF ref < stream_array[s].max_ref_count THEN
        [ok |-> TRUE, ref |-> ref + 1,
         st |-> IF ref + 1 = 1
                THEN apply_paths_to_global_l(st, e_path_id_on,
                                             stream_array[s].enable_path, "open")
                ELSE st]
    ELSE [ok |-> FALSE, ref |-> ref, st |-> st]

stream_type_for(devices, pcm) ==
    IF (devices \cap AUDIO_DEVICE_BIT_IN) # {}
    THEN (IF pcm THEN "e_stream_in_pcm" ELSE "e_stream_in_compress")
    ELSE (IF pcm THEN "e_stream_out_pcm" ELSE "e_stream_out_compress")

\* The search loop of get_stream: k runs from count-1 down to 0 (here from
\* Len down to 1); the first stream of the type that opens ends the loop.
RECURSIVE get_stream_loop(_, _, _)
RECURSIVE get_stream_try(_, _, _, _)
get_stream_loop(st, k, type) ==
    IF k < 1 THEN [s |-> NoStream, ref |-> 0, st |-> st]
    ELSE IF stream_array[anon_stream_array[k]].type = type
    THEN get_stream_try(st, k, type,
                        open_stream_l(st, anon_stream_array[k],
                                      ref_count[anon_stream_array[k]]))
    ELSE get_stream_loop(st, k - 1, type)

\* get_stream handing out a stream that open_stream_l refused
get_stream_try_any(st, k, type, o) ==
    [s |-> anon_stream_array[k], ref |-> o.ref, st |-> o.st]

get_stream_try(st, k, type, o) ==
    IF o.ok THEN [s |-> anon_stream_array[k], ref |-> o.ref, st |-> o.st]
    ELSE get_stream_loop(st, k - 1, type)

\* release_stream tearing down whenever the new ref_count is <= 0
release_locked_le(st, s, ref, cur) ==
    IF ref - 1 <= 0 THEN
        LET st1 == apply_paths_to_devices_l(st, cur, e_path_id_off,
                       stream_array[s].disable_path, "release")
        IN  [ref |-> ref - 1, cur |-> {},
             st |-> apply_paths_to_global_l(st1, stream_array[s].disable_path,
                                            e_path_id_off, "release_global")]
    ELSE [ref |-> ref - 1, cur |-> cur, st |-> st]

\* release_stream, the part under the lock: [ref, cur, st]
release_locked(st, s, ref, cur) ==
    IF ref - 1 = 0 THEN
        LET st1 == apply_paths_to_devices_l(st, cur, e_path_id_off,
                       stream_array[s].disable_path, "release")
        IN  [ref |-> ref - 1, cur |-> {},
             st |-> apply_paths_to_global_l(st1, stream_array[s].disable_path,
                                            e_path_id_off, "release_global")]
    ELSE [ref |-> ref - 1, cur |-> cur, st |-> st]

(***************************************************************************)
(* History of the on/off requests a call made, per device.  A stream is a  *)
(* router of a device from its 'on' request to its 'off' request; a device *)
(* stays clean as long as every 'on' comes from a stream that is not a     *)
(* router and every 'off' from one that is.  onW/offW count the executions *)
(* of the 'on'/'off' controls since the device last got its first router.  *)
(***************************************************************************)
Inc(n) == IF n < 2 THEN n + 1 ELSE 2

Dirty(g, d) ==
    [routers |-> [g.routers EXCEPT ![d] = {}],
     clean |-> [g.clean EXCEPT ![d] = FALSE],
     onW |-> [g.onW EXCEPT ![d] = 0],
     offW |-> [g.offW EXCEPT ![d] = 0]]

track_step(g, e, s) ==
    IF ~g.clean[e.dev] THEN g
    ELSE IF e.id = e_path_id_on THEN
        IF s \in g.routers[e.dev] THEN Dirty(g, e.dev)
        ELSE IF g.routers[e.dev] = {}
        THEN [g EXCEPT !.routers[e.dev] = {s},
                       !.onW[e.dev] = IF e.wrote THEN 1 ELSE 0,
                       !.offW[e.dev] = 0]
        ELSE [g EXCEPT !.routers[e.dev] = @ \cup {s},
                       !.onW[e.dev] = IF e.wrote THEN Inc(@) ELSE @]
    ELSE IF e.id = e_path_id_off THEN
        IF s \notin g.routers[e.dev] THEN Dirty(g, e.dev)
        ELSE [g EXCEPT !.routers[e.dev] = @ \ {s},
                       !.offW[e.dev] = IF e.wrote THEN Inc(@) ELSE @]
    ELSE g

RECURSIVE track(_, _, _, _)
track(g, ev, k, s) ==
    IF k > Len(ev) THEN g
    ELSE track(track_step(g, ev[k], s), ev, k + 1, s)

TrackTo(g) ==
    /\ routers' = g.routers
    /\ clean' = g.clean
    /\ onW' = g.onW
    /\ offW' = g.offW

Track(ev, s) ==
    TrackTo(track([routers |-> routers, clean |-> clean,
                   onW |-> onW, offW |-> offW], ev, 1, s))

InBounds(uc) == \A d \in Devs : uc[d] >= -MaxDrift /\ uc[d] <= MaxUse

St0 == [use_count |-> use_count, ev |-> <<>>]

\* devices: the mask passed to apply_route / get_stream; what: the stream
\* type get_stream looked for, or the name passed to get_named_stream
Last(op, s, devices, what, ok, ev) ==
    [op |-> op, s |-> s, devices |-> devices, what |-> what, ok |-> ok, ev |-> ev]

(***************************************************************************)
(* What each API call does to the manager when run from start to end in    *)
(* the current state: [ok, s, use_count, ref, cur, ev].                    *)
(***************************************************************************)
Result(ok, s, st, ref, cur) ==
    [ok |-> ok, s |-> s, use_count |-> st.use_count, ref |-> ref, cur |-> cur,
     ev |-> st.ev]

NoResult == Result(FALSE, NoStream, St0, 0, {})

route_result(r, s) ==
    IF ~r.ok
    THEN Result(FALSE, s, St0, ref_count[s], current_devices[s])
    ELSE Result(TRUE, s, route_locked(St0, s, r.devices, current_devices[s]),
                ref_count[s], r.devices)

apply_route_result(s, devices) == route_result(route_devices(s, devices), s)

\* get_stream returning the stream without routing it
get_stream_route_kept(g, r) ==
    Result(TRUE, g.s, g.st, g.ref, current_devices[g.s])

\* get_stream after the search loop: "apply initial routing"
get_stream_route(g, r) ==
    IF r.ok
    THEN Result(TRUE, g.s, route_locked(g.st, g.s, r.devices, current_devices[g.s]),
                g.ref, r.devices)
    ELSE Result(TRUE, g.s, g.st, g.ref, current_devices[g.s])

get_stream_found(g, devices) ==
    IF g.s = NoStream THEN NoResult
    ELSE get_stream_route(g, route_devices(g.s, devices))

get_stream_result(devices, pcm) ==
    get_stream_found(get_stream_loop(St0, Len(anon_stream_array),
                                     stream_type_for(devices, pcm)), devices)

named_result(s, o) ==
    IF ~o.ok THEN NoResult
    ELSE Result(TRUE, s, o.st, o.ref, current_devices[s])

named_open(s) ==
    IF s = NoStream THEN NoResult
    ELSE named_result(s, open_stream_l(St0, s, ref_count[s]))

get_named_stream_result(name) == named_open(find_named_stream(name))

released(s, r) == Result(TRUE, s, r.st, r.ref, r.cur)

release_stream_result(s) ==
    released(s, release_locked(St0, s, ref_count[s], current_devices[s]))

\* The controls of the paths a call applied, in the order of its events:
\* apply_device_path_l calls apply_path_l where the event says wrote
apply_event(bs, e) ==
    IF e.wrote THEN apply_path_l(bs, e.dev, e.idx) ELSE bs

RECURSIVE apply_events(_, _, _)
apply_events(bs, ev, k) ==
    IF k > Len(ev) THEN bs
    ELSE apply_events(apply_event(bs, ev[k]), ev, k + 1)

Bs0 == [bound |-> bound, wr |-> <<>>]

CtlTo(bs) ==
    /\ bound' = bs.bound
    /\ wr' = bs.wr

\* Store the result of a call; acq is the change of the caller's holdings.
Commit(op, r, devices, what, acq) ==
    /\ InBounds(r.use_count)
    /\ CtlTo(apply_events(Bs0, r.ev, 1))
    /\ ret' = 0
    /\ pin' = NoInput
    /\ use_count' = r.use_count
    /\ last' = Last(op, r.s, devices, what, r.ok, r.ev)
    /\ IF r.s = NoStream
       THEN UNCHANGED <<ref_count, current_devices, held, ghost>>
       ELSE /\ ref_count' = [ref_count EXCEPT ![r.s] = r.ref]
            /\ current_devices' = [current_devices EXCEPT ![r.s] = r.cur]
            /\ held' = [held EXCEPT ![r.s] = IF @ + acq > 0 THEN @ + acq ELSE 0]
            /\ Track(r.ev, r.s)
    /\ UNCHANGED <<cfg, state>>

(***************************************************************************)
(* The API calls, each as one atomic step (a single caller)                *)
(***************************************************************************)
\* The sets of controls the mixer can have when the configuration loads:
\* parse_ctl_start leaves a control the mixer does not have to be opened
\* later and fails the load for one whose value is no number
LoadMixers ==
    SUBSET {c.name : c \in {k \in AllCtls :
                               \A b \in AllCtls : b.name = k.name => b.valid}}

\* No load is in progress
NoState == [pc |-> "loaded"]

\* No call made yet
NoCallYet(input) ==
    /\ use_count = [d \in Devs |-> 0]
    /\ ref_count = [s \in Streams |-> 0]
    /\ current_devices = [s \in Streams |-> {}]
    /\ held = [s \in Streams |-> 0]
    /\ last = Last("init", NoStream, {}, NoName, TRUE, <<>>)
    /\ routers = [d \in Devs |-> {}]
    /\ clean = [d \in Devs |-> TRUE]
    /\ onW = [d \in Devs |-> 0]
    /\ offW = [d \in Devs |-> 0]
    /\ lock = 0
    /\ tpc = [t \in Threads |-> "idle"]
    /\ targ = [t \in Threads |-> [own |-> [s \in Streams |-> 0]]]
    /\ slock = [s \in Streams |-> 0]
    /\ ctl_array = <<>>
    /\ wr = <<>>
    /\ ret = 0
    /\ pin = input

\* The manager init_audio_config returns, and no call made yet: the controls
\* the mixer has were opened by parse_ctl_start
Manager0(input) ==
    /\ NoCallYet(input)
    /\ mixer \in LoadMixers
    /\ alsa = [ctl |-> mixer, calls |-> <<>>]
    /\ bound = {c.id : c \in {k \in AllCtls : k.name \in mixer}}

Fresh(input) == state = NoState /\ Manager0(input)

Init == cfg \in SeqConfigs /\ Fresh(NoInput)

apply_route(s, devices) ==
    /\ Commit("apply_route", apply_route_result(s, devices), devices, NoName, 0)
    /\ UNCHANGED <<mt, mixer, alsa, ctl_array>>

get_stream(devices, pcm) ==
    /\ Commit("get_stream", get_stream_result(devices, pcm), devices,
              stream_type_for(devices, pcm), 1)
    /\ UNCHANGED <<mt, mixer, alsa, ctl_array>>

get_named_stream(name) ==
    /\ Commit("get_named_stream", get_named_stream_result(name), {}, name, 1)
    /\ UNCHANGED <<mt, mixer, alsa, ctl_array>>

release_stream(s) ==
    /\ ref_count[s] > -MaxUnderflow
    /\ Commit("release_stream", release_stream_result(s), {}, NoName, -1)
    /\ UNCHANGED <<mt, mixer, alsa, ctl_array>>

\* Callers use only streams they hold
ApplyRoute ==
    \E s \in Streams, devices \in Masks : held[s] > 0 /\ apply_route(s, devices)
GetStream == \E devices \in Masks, pcm \in BOOLEAN : get_stream(devices, pcm)
GetNamedStream == \E name \in Names : get_named_stream(name)
ReleaseStream == \E s \in Streams : held[s] > 0 /\ release_stream(s)

\* A release of a stream the caller does not hold
ReleaseUnheld == \E s \in Streams : held[s] = 0 /\ release_stream(s)

Next == ApplyRoute \/ GetStream \/ GetNamedStream \/ ReleaseStream

Spec == Init /\ [][Next]_vars

NextAny == Next \/ ReleaseUnheld

\* The configurations whose devices all declare both 'on' and 'off';
\* configuration 1 differs from 2 by a third stream and the device order only
InitAny == Init /\ cfg \in {2, 3}

SpecAny == InitAny /\ [][NextAny]_vars

TypeOK ==
    /\ \A d \in Devs : use_count[d] \in -MaxDrift..MaxUse
    /\ \A s \in Streams : current_devices[s] \subseteq 0..31

(***************************************************************************)
(* set_hw_volume on its own: the stream's volume controls and the          *)
(* percentages are drawn from VolInputs.                                   *)
(***************************************************************************)
VolRange == {INT_MIN, -100, -1, 0, 1, 100, INT_MAX}
VolPercents == {-1, 0, 1, 49, 50, 99, 100, 101}

\* The stream of an input: ranges [min, max] on the left control and
\* [max, min] on the right one
VolStream(left, right, min, max) ==
    Controls(Stream(NoName, "e_stream_out_pcm", 1, NoPath, NoPath),
             IF left THEN StreamControl("Left Volume", 0, min, max)
             ELSE NoControl,
             IF right THEN StreamControl("Right Volume", 1, max, min)
             ELSE NoControl,
             <<>>)

VolInputs ==
    { [stream |-> VolStream(left, right, min, max),
       left_pc |-> left_pc, right_pc |-> right_pc] :
        left \in BOOLEAN, right \in BOOLEAN, min \in VolRange,
        max \in VolRange, left_pc \in VolPercents, right_pc \in VolPercents }

InitVol == cfg = MTConfig /\ \E input \in VolInputs : Fresh(input)

\* Store what a stream-control call returned and wrote
Returned(op, r) ==
    /\ ret' = r.ret
    /\ wr' = r.wr
    /\ last' = Last(op, NoStream, {}, NoName, r.ret = 0, <<>>)

SetHwVolumeOnInput ==
    /\ last.op = "init"
    /\ Returned("set_hw_volume",
                set_hw_volume_result(pin.stream, pin.left_pc, pin.right_pc))
    /\ UNCHANGED <<cfg, state, use_count, ref_count, current_devices, held, ghost, mt,
                   mixer, alsa, ctl_array, bound, pin>>

SpecVol == InitVol /\ [][SetHwVolumeOnInput]_vars

(***************************************************************************)
(* The API called from several threads.  A call is split at the points     *)
(* where another thread can run: before pthread_mutex_lock, and after      *)
(* pthread_mutex_unlock.  A thread at "f:lock" is about to take cm->lock   *)
(* in f; at "f:locked" it holds the lock and is about to run the part of f *)
(* between lock and unlock; the step that runs that part also unlocks.     *)
(* set_hw_volume takes no lock: "set_hw_volume:left" / ":right" are the    *)
(* positions before its two calls of set_vol_ctl.                          *)
(***************************************************************************)
\* The masks the threads pass: under the HAL's stream locks those of the
\* configuration
MTMasks == IF cfg = LockConfig THEN Masks ELSE {{}, {4}, {4, 5}}
Percents == {0, 100, 101}
Settings == {"mode", "nope"}
Cases == {"voice", "nope"}

Owns(t, s) == targ[t].own[s] > 0

Own(t, s, n) == [targ[t].own EXCEPT ![s] = @ + n]

\* The thread moves to pc with the arguments and locals args
Goto(t, pc, args) ==
    /\ tpc' = [tpc EXCEPT ![t] = pc]
    /\ targ' = [targ EXCEPT ![t] = args]

Return(t, own) == Goto(t, "idle", [own |-> own])

Shared == <<cfg, state, use_count, ref_count, current_devices, held, last,
            ghost, ctlv, slock>>

\* Store the result of the locked part of a call.  The history variables
\* last, routers, clean, onW and offW describe a single caller and are not
\* kept here.
Store(r, acq) ==
    /\ InBounds(r.use_count)
    /\ use_count' = r.use_count
    /\ IF r.s = NoStream
       THEN UNCHANGED <<ref_count, current_devices, held>>
       ELSE /\ ref_count' = [ref_count EXCEPT ![r.s] = r.ref]
            /\ current_devices' = [current_devices EXCEPT ![r.s] = r.cur]
            /\ held' = [held EXCEPT ![r.s] = IF @ + acq > 0 THEN @ + acq ELSE 0]
    /\ UNCHANGED <<cfg, state, last, ghost, ctlv, slock>>

LockPcs == {"apply_route:lock", "get_stream:lock", "get_named_stream:lock",
            "release_stream:lock", "apply_use_case:lock",
            "old_apply_route:lock", "old_get_stream:lock"}

Locked(pc) ==
    CASE pc = "apply_route:lock" -> "apply_route:locked"
      [] pc = "get_stream:lock" -> "get_stream:locked"
      [] pc = "get_named_stream:lock" -> "get_named_stream:locked"
      [] pc = "release_stream:lock" -> "release_stream:locked"
      [] pc = "apply_use_case:lock" -> "apply_use_case:locked"
      [] pc = "old_apply_route:lock" -> "old_apply_route:locked"
      [] pc = "old_get_stream:lock" -> "old_get_stream:locked"

pthread_mutex_lock(t) ==
    /\ tpc[t] \in LockPcs
    /\ lock = 0
    /\ lock' = t
    /\ tpc' = [tpc EXCEPT ![t] = Locked(@)]
    /\ UNCHANGED <<Shared, targ>>

pthread_mutex_unlock(t) == lock' = 0

\* apply_route up to the lock: a direction mismatch returns at once
apply_route_call(t) ==
    /\ tpc[t] = "idle"
    /\ \E s \in Streams, devices \in MTMasks :
          /\ Owns(t, s)
          /\ route_devices(s, devices).ok
          /\ Goto(t, "apply_route:lock",
                  [own |-> targ[t].own, s |-> s, devices |-> devices])
    /\ UNCHANGED <<Shared, lock>>

apply_route_locked(t) ==
    /\ tpc[t] = "apply_route:locked"
    /\ Store(apply_route_result(targ[t].s, targ[t].devices), 0)
    /\ pthread_mutex_unlock(t)
    /\ Return(t, targ[t].own)

get_stream_call(t) ==
    /\ tpc[t] = "idle"
    /\ \E devices \in MTMasks, pcm \in BOOLEAN :
          Goto(t, "get_stream:lock",
               [own |-> targ[t].own, devices |-> devices,
                type |-> stream_type_for(devices, pcm)])
    /\ UNCHANGED <<Shared, lock>>

\* get_stream from the search loop to "apply initial routing": the call of
\* apply_route is made after the unlock
get_stream_opened(t, g) ==
    IF g.s = NoStream
    THEN /\ Store(NoResult, 1)
         /\ Return(t, targ[t].own)
    ELSE /\ Store(Result(TRUE, g.s, g.st, g.ref, current_devices[g.s]), 1)
         /\ IF route_devices(g.s, targ[t].devices).ok
            THEN Goto(t, "apply_route:lock",
                      [own |-> Own(t, g.s, 1), s |-> g.s,
                       devices |-> targ[t].devices])
            ELSE Return(t, Own(t, g.s, 1))

get_stream_locked(t) ==
    /\ tpc[t] = "get_stream:locked"
    /\ get_stream_opened(t, get_stream_loop(St0, Len(anon_stream_array),
                                            targ[t].type))
    /\ pthread_mutex_unlock(t)

\* find_named_stream runs before the lock; the lock is taken even when
\* no stream has the name
get_named_stream_call(t) ==
    /\ tpc[t] = "idle"
    /\ \E name \in Names :
          Goto(t, "get_named_stream:lock",
               [own |-> targ[t].own, s |-> find_named_stream(name)])
    /\ UNCHANGED <<Shared, lock>>

get_named_stream_opened(t, r) ==
    /\ Store(r, 1)
    /\ Return(t, IF r.ok THEN Own(t, r.s, 1) ELSE targ[t].own)

\* get_named_stream returning without the unlock when no stream has the
\* name
get_named_stream_locked_early_return(t) ==
    /\ tpc[t] = "get_named_stream:locked"
    /\ get_named_stream_opened(t, named_open(targ[t].s))
    /\ IF targ[t].s = NoStream THEN lock' = lock ELSE pthread_mutex_unlock(t)

get_named_stream_locked(t) ==
    /\ tpc[t] = "get_named_stream:locked"
    /\ get_named_stream_opened(t, named_open(targ[t].s))
    /\ pthread_mutex_unlock(t)

release_stream_call(t) ==
    /\ tpc[t] = "idle"
    /\ \E s \in Streams :
          /\ Owns(t, s)
          /\ Goto(t, "release_stream:lock", [own |-> targ[t].own, s |-> s])
    /\ UNCHANGED <<Shared, lock>>

release_stream_locked(t) ==
    /\ tpc[t] = "release_stream:locked"
    /\ Store(release_stream_result(targ[t].s), -1)
    /\ pthread_mutex_unlock(t)
    /\ Return(t, Own(t, targ[t].s, -1))

\* The inner loop of apply_use_case matching any case name
find_case_any_name(cases, case_name) == IF Len(cases) > 0 THEN 1 ELSE 0

\* The inner loop of apply_use_case: the number of the first case of the
\* use case with the name case_name, 0 if there is none
find_case(cases, case_name) ==
    LET hits == {c \in 1..Len(cases) : cases[c] = case_name}
    IN  IF hits = {} THEN 0 ELSE CHOOSE c \in hits : \A j \in hits : c <= j

\* The outer loop of apply_use_case, from use case u on: <<u, c>> of the
\* case that is applied, <<0, 0>> for -ENOSYS
RECURSIVE find_use_case(_, _, _, _)
find_use_case(usecases, u, setting, case_name) ==
    IF u > Len(usecases) THEN <<0, 0>>
    ELSE IF usecases[u].name = setting
            /\ find_case(usecases[u].cases, case_name) # 0
    THEN <<u, find_case(usecases[u].cases, case_name)>>
    ELSE find_use_case(usecases, u + 1, setting, case_name)

\* apply_use_case searches the case without the lock
apply_use_case_call(t) ==
    /\ tpc[t] = "idle"
    /\ \E s \in Streams, setting \in Settings, case_name \in Cases :
          /\ Owns(t, s)
          /\ find_use_case(stream_array[s].usecase_array, 1, setting,
                           case_name) # <<0, 0>>
          /\ Goto(t, "apply_use_case:lock",
                  [own |-> targ[t].own, s |-> s,
                   found |-> find_use_case(stream_array[s].usecase_array, 1,
                                           setting, case_name)])
    /\ UNCHANGED <<Shared, lock>>

\* apply_ctls_l on the controls of the case
apply_use_case_locked(t) ==
    /\ tpc[t] = "apply_use_case:locked"
    /\ pthread_mutex_unlock(t)
    /\ Return(t, targ[t].own)
    /\ UNCHANGED Shared

\* set_hw_volume up to the first set_vol_ctl: -EINVAL for a percentage out
\* of range, -ENOSYS for a stream without volume controls
set_hw_volume_call(t) ==
    /\ tpc[t] = "idle"
    /\ \E s \in Streams, left_pc \in Percents, right_pc \in Percents :
          /\ Owns(t, s)
          /\ ~(left_pc < 0 \/ left_pc > 100)
          /\ ~(right_pc < 0 \/ right_pc > 100)
          /\ IF stream_array[s].volume_left.valid
             THEN Goto(t, "set_hw_volume:left",
                       [own |-> targ[t].own, s |-> s,
                        left_pc |-> IF ~stream_array[s].volume_right.valid
                                    THEN (left_pc + right_pc) \div 2
                                    ELSE left_pc,
                        right_pc |-> right_pc])
             ELSE /\ stream_array[s].volume_right.valid
                  /\ Goto(t, "set_hw_volume:right",
                          [own |-> targ[t].own, s |-> s, left_pc |-> left_pc,
                           right_pc |-> right_pc])
    /\ UNCHANGED <<Shared, lock>>

\* set_vol_ctl(s, &s->controls.volume_left, left_pc)
set_hw_volume_left(t) ==
    /\ tpc[t] = "set_hw_volume:left"
    /\ IF stream_array[targ[t].s].volume_right.valid
       THEN Goto(t, "set_hw_volume:right", targ[t])
       ELSE Return(t, targ[t].own)
    /\ UNCHANGED <<Shared, lock>>

\* set_vol_ctl(s, &s->controls.volume_right, right_pc)
set_hw_volume_right(t) ==
    /\ tpc[t] = "set_hw_volume:right"
    /\ Return(t, targ[t].own)
    /\ UNCHANGED <<Shared, lock>>

NextMT ==
    \E t \in Threads :
        \/ pthread_mutex_lock(t)
        \/ apply_route_call(t)
        \/ apply_route_locked(t)
        \/ get_stream_call(t)
        \/ get_stream_locked(t)
        \/ get_named_stream_call(t)
        \/ get_named_stream_locked(t)
        \/ release_stream_call(t)
        \/ release_stream_locked(t)
        \/ apply_use_case_call(t)
        \/ apply_use_case_locked(t)
        \/ set_hw_volume_call(t)
        \/ set_hw_volume_left(t)
        \/ set_hw_volume_right(t)

InitMT == Init /\ cfg = MTConfig

SpecMT == InitMT /\ [][NextMT]_vars

(***************************************************************************)
(* The API called from threads of the HAL that hold the lock of a stream   *)
(* around their calls, as in_pcm_set_parameters and do_in_pcm_read do      *)
(* (src/audio/audio_hw.c).  The manager never touches a stream lock.       *)
(***************************************************************************)
\* pthread_mutex_lock(&in->common.lock): the thread is in no call of the
\* manager when it takes the lock of a stream it has
stream_lock(t) ==
    /\ tpc[t] = "idle"
    /\ \E s \in Streams :
          /\ Owns(t, s)
          /\ slock[s] = 0
          /\ slock' = [slock EXCEPT ![s] = t]
    /\ UNCHANGED <<cfg, state, use_count, ref_count, current_devices, held,
                   last, ghost, ctlv, lock, tpc, targ>>

\* pthread_mutex_unlock(&in->common.lock)
stream_unlock(t) ==
    /\ tpc[t] = "idle"
    /\ \E s \in Streams :
          /\ slock[s] = t
          /\ slock' = [slock EXCEPT ![s] = 0]
    /\ UNCHANGED <<cfg, state, use_count, ref_count, current_devices, held,
                   last, ghost, ctlv, lock, tpc, targ>>

\* The steps a thread inside a call takes without waiting for a lock
Running(t) ==
    \/ apply_route_locked(t)
    \/ get_stream_locked(t)
    \/ get_named_stream_locked(t)
    \/ release_stream_locked(t)
    \/ apply_use_case_locked(t)
    \/ set_hw_volume_left(t)
    \/ set_hw_volume_right(t)

NextLock ==
    \E t \in Threads :
        \/ pthread_mutex_lock(t)
        \/ apply_route_call(t)
        \/ apply_route_locked(t)
        \/ get_stream_call(t)
        \/ get_stream_locked(t)
        \/ get_named_stream_call(t)
        \/ get_named_stream_locked(t)
        \/ release_stream_call(t)
        \/ release_stream_locked(t)
        \/ apply_use_case_call(t)
        \/ apply_use_case_locked(t)
        \/ set_hw_volume_call(t)
        \/ set_hw_volume_left(t)
        \/ set_hw_volume_right(t)
        \/ stream_lock(t)
        \/ stream_unlock(t)

InitLock == cfg = LockConfig /\ Fresh(NoInput)

\* Fair scheduling: a thread that can run does run, and a thread waiting
\* for the manager's mutex gets it when it is free again and again
FairLock ==
    \A t \in Threads :
        WF_vars(Running(t)) /\ SF_vars(pthread_mutex_lock(t))

SpecLock == InitLock /\ [][NextLock]_vars /\ FairLock

(***************************************************************************)
(* The older implementation, src/audio_config.c.  Its get_named_stream and *)
(* release_stream are those of the implementation above; its get_stream    *)
(* routes nothing, and its apply_route reads current_devices before it     *)
(* takes cm->lock.                                                         *)
(***************************************************************************)
\* The masking of the requested devices in the older apply_route, which
\* has no test of the direction
old_route_devices(s, devices) ==
    IF stream_is_input(stream_array[s])
    THEN (devices \cap AUDIO_DEVICE_IN_ALL) \cup AUDIO_DEVICE_BIT_IN
    ELSE devices \cap AUDIO_DEVICE_OUT_ALL

\* The older apply_route up to the lock: enabling and disabling are locals
\* computed from current_devices as it is read here
old_apply_route_call(t) ==
    /\ tpc[t] = "idle"
    /\ \E s \in Streams, devices \in MTMasks :
          /\ Owns(t, s)
          /\ Goto(t, "old_apply_route:lock",
                  [own |-> targ[t].own, s |-> s, devices |-> devices,
                   enabling |-> devices \ current_devices[s],
                   disabling |-> current_devices[s] \ devices])
    /\ UNCHANGED <<Shared, lock>>

\* The older apply_route, the part under the lock
old_route_locked(st, s, enabling, disabling) ==
    LET st1 == apply_paths_to_devices_l(st, disabling,
                   stream_array[s].disable_path, e_path_id_off, "disabling")
    IN  apply_paths_to_devices_l(st1, enabling,
                   e_path_id_on, stream_array[s].enable_path, "enabling")

old_apply_route_locked(t) ==
    /\ tpc[t] = "old_apply_route:locked"
    /\ Store(Result(TRUE, targ[t].s,
                    old_route_locked(St0, targ[t].s, targ[t].enabling,
                                     targ[t].disabling),
                    ref_count[targ[t].s],
                    old_route_devices(targ[t].s, targ[t].devices)), 0)
    /\ pthread_mutex_unlock(t)
    /\ Return(t, targ[t].own)

old_get_stream_call(t) ==
    /\ tpc[t] = "idle"
    /\ \E devices \in MTMasks, pcm \in BOOLEAN :
          Goto(t, "old_get_stream:lock",
               [own |-> targ[t].own, devices |-> devices,
                type |-> stream_type_for(devices, pcm)])
    /\ UNCHANGED <<Shared, lock>>

\* The older get_stream returns the stream the search loop opened
old_get_stream_opened(t, g) ==
    IF g.s = NoStream
    THEN /\ Store(NoResult, 1)
         /\ Return(t, targ[t].own)
    ELSE /\ Store(Result(TRUE, g.s, g.st, g.ref, current_devices[g.s]), 1)
         /\ Return(t, Own(t, g.s, 1))

old_get_stream_locked(t) ==
    /\ tpc[t] = "old_get_stream:locked"
    /\ old_get_stream_opened(t, get_stream_loop(St0, Len(anon_stream_array),
                                                targ[t].type))
    /\ pthread_mutex_unlock(t)

NextOld ==
    \E t \in Threads :
        \/ pthread_mutex_lock(t)
        \/ old_apply_route_call(t)
        \/ old_apply_route_locked(t)
        \/ old_get_stream_call(t)
        \/ old_get_stream_locked(t)
        \/ get_named_stream_call(t)
        \/ get_named_stream_locked(t)
        \/ release_stream_call(t)
        \/ release_stream_locked(t)

SpecOld == InitMT /\ [][NextOld]_vars

(***************************************************************************)
(* The calls that write the controls of paths and cases, from a single     *)
(* caller, on a sound card that can get controls after the load.           *)
(***************************************************************************)
CtlCases == Cases \cup {"music"}

\* apply_use_case after the search: found is <<u, c>> or <<0, 0>>.  The
\* result is [ret, bs].
apply_use_case_found(s, found) ==
    IF found = <<0, 0>> THEN [ret |-> -ENOSYS, bs |-> Bs0]
    ELSE [ret |-> 0,
          bs |-> apply_ctls_l(Bs0, stream_array[s].usecase_array[found[1]]
                                       .ctls[found[2]], 1)]

\* apply_use_case refusing a stream that has no route
apply_use_case_routed(s, setting, case_name) ==
    apply_use_case_found(s,
        IF current_devices[s] = {} THEN <<0, 0>>
        ELSE find_use_case(stream_array[s].usecase_array, 1, setting, case_name))

apply_use_case_result(s, setting, case_name) ==
    apply_use_case_found(s,
        find_use_case(stream_array[s].usecase_array, 1, setting, case_name))

UseCaseReturned(s, setting, case_name, r) ==
    /\ ret' = r.ret
    /\ CtlTo(r.bs)
    /\ last' = Last("apply_use_case", s, {}, case_name, r.ret = 0, <<>>)
    /\ pin' = [s |-> s, setting |-> setting, case_name |-> case_name]

apply_use_case(s, setting, case_name) ==
    /\ UseCaseReturned(s, setting, case_name,
                       apply_use_case_result(s, setting, case_name))
    /\ UNCHANGED <<cfg, state, use_count, ref_count, current_devices, held, ghost, mt,
                   mixer, alsa, ctl_array>>

\* The handle of a stream stays valid after its release
ApplyUseCase ==
    \E s \in Streams, setting \in Settings, case_name \in CtlCases :
        apply_use_case(s, setting, case_name)

\* The sound card gets a control (a codec driver registers it):
\* mixer_add_new_ctls in ctl_open finds it from then on
AddCtl ==
    /\ \E c \in AllCtls : c.name \notin mixer /\ mixer' = mixer \cup {c.name}
    /\ UNCHANGED <<cfg, state, use_count, ref_count, current_devices, held, last, ghost,
                   mt, alsa, ctl_array, bound, wr, ret, pin>>

NextCtl ==
    \/ ApplyRoute
    \/ GetStream
    \/ GetNamedStream
    \/ ReleaseStream
    \/ ApplyUseCase
    \/ AddCtl

InitCtl == cfg = CtlConfig /\ Fresh(NoInput)

SpecCtl == InitCtl /\ [][NextCtl]_vars

(***************************************************************************)
(* Binding and writing the controls of one path, value by value.           *)
(*                                                                         *)
(* ctl_array holds the struct ctl of each <ctl> of the path, alsa what     *)
(* tinyalsa lists of the card and the calls made to it.  The value of a    *)
(* <ctl> is the sequence of the tokens between the commas of its val       *)
(* attribute; pin.data gives the bytes of the data files and pin.fail the  *)
(* writes the card refuses.                                                *)
(***************************************************************************)
\* The numbers a string of the files loaded here can spell
string_to_uint(str) ==
    CASE str = NoName -> [ret |-> -ENOENT, v |-> 0]
      [] str = "0"    -> [ret |-> 0, v |-> 0]
      [] str = "1"    -> [ret |-> 0, v |-> 1]
      [] str = "2"    -> [ret |-> 0, v |-> 2]
      [] OTHER        -> [ret |-> -EINVAL, v |-> 0]

\* val of no <ctl>: the element has a file attribute instead
NoValue == <<>>

\* strtol must reach the end of the string: a string with a comma is no
\* number
string_to_int(val) ==
    CASE val = NoValue -> [ret |-> -ENOENT, v |-> 0]
      [] Len(val) = 1  -> string_to_uint(val[1])
      [] OTHER         -> [ret |-> -EINVAL, v |-> 0]

\* The controls the sound card can have: snd_ctl_elem_info type and count
SoundCard ==
    [name \in {"Gain", "Coeff", "Mode"} |->
        CASE name = "Gain"  -> [type |-> "MIXER_CTL_TYPE_INT", vnum |-> 2]
          [] name = "Coeff" -> [type |-> "MIXER_CTL_TYPE_BYTE", vnum |-> 2]
          [] name = "Mode"  -> [type |-> "MIXER_CTL_TYPE_ENUM", vnum |-> 1]]

mixer_ctl_get_type(name) == SoundCard[name].type
mixer_ctl_get_num_values(name) == SoundCard[name].vnum

\* One call of tinyalsa: at is the value index or the offset, n the value
\* or the number of bytes, err what it returned
Call(call, name, at, n, err) ==
    [call |-> call, ctl |-> name, at |-> at, n |-> n, err |-> err]

\* tinyalsa looks the name up in the list it read from the card
mixer_get_ctl_by_name(a, name) ==
    [a EXCEPT !.calls = Append(@, Call("mixer_get_ctl_by_name", name, 0, 0,
                                       IF name \in a.ctl THEN 0 ELSE -1))]

\* tinyalsa reads the controls the card has got since the list was read
mixer_add_new_ctls(a) ==
    [ctl |-> a.ctl \cup mixer,
     calls |-> Append(a.calls, Call("mixer_add_new_ctls", NoName, 0, 0, 0))]

\* new_ctl and parse_ctl_start before ctl_open: ref is the control the
\* ctl_ref stands for, buffer the size of the work buffer
new_ctl(name, index, val, file) ==
    [name |-> name, index |-> index, string |-> val, data_file_name |-> file,
     array_count |-> 0, data |-> <<>>, integer |-> 0, type |-> NoName,
     ref |-> NoName, buffer |-> 0]

ctl_ref_valid(c) == c.ref # NoName

Min(a, b) == IF a < b THEN a ELSE b

\* [ret, c]: the data file is cut to the size of the control
get_value_from_file(c, vnum) ==
    IF c.data_file_name \notin DOMAIN pin.data
    THEN [ret |-> -EIO, c |-> c]
    ELSE [ret |-> 0,
          c |-> [c EXCEPT
                   !.array_count = Min(Len(pin.data[c.data_file_name]), vnum),
                   !.data = SubSeq(pin.data[c.data_file_name], 1,
                                   Min(Len(pin.data[c.data_file_name]), vnum))]]

\* [ret, c]: the tokens of the value string become the bytes
make_byte_array(c, vnum) ==
    IF c.index >= vnum THEN [ret |-> -EINVAL, c |-> c]
    ELSE IF Len(c.string) = 0 THEN [ret |-> -EINVAL, c |-> c]
    ELSE IF c.index + Len(c.string) > vnum THEN [ret |-> -EINVAL, c |-> c]
    ELSE IF \E k \in 1..Len(c.string) : string_to_uint(c.string[k]).ret # 0
    THEN [ret |-> -EINVAL, c |-> [c EXCEPT !.array_count = Len(c.string)]]
    ELSE [ret |-> 0,
          c |-> [c EXCEPT
                   !.array_count = Len(c.string),
                   !.data = [k \in 1..Len(c.string) |->
                                string_to_uint(c.string[k]).v % 256]]]

make_byte_work_buffer(c, buffer_size) ==
    IF c.data_file_name # NoName
    THEN get_value_from_file([c EXCEPT !.buffer = buffer_size], buffer_size)
    ELSE make_byte_array([c EXCEPT !.buffer = buffer_size], buffer_size)

\* ctl_open once tinyalsa has found the control: [ret, c]
ctl_open_found(c) ==
    CASE mixer_ctl_get_type(c.name) = "MIXER_CTL_TYPE_BYTE" ->
            LET r == make_byte_work_buffer(
                         [c EXCEPT !.index = IF @ = INVALID_CTL_INDEX
                                             THEN 0 ELSE @],
                         mixer_ctl_get_num_values(c.name))
            IN IF r.ret # 0 THEN r
               ELSE [ret |-> 0,
                     c |-> [r.c EXCEPT !.type = mixer_ctl_get_type(c.name),
                                       !.ref = c.name]]
      [] mixer_ctl_get_type(c.name) \in {"MIXER_CTL_TYPE_BOOL",
                                         "MIXER_CTL_TYPE_INT"} ->
            IF string_to_int(c.string).ret = -EINVAL
            THEN [ret |-> -EINVAL, c |-> c]
            ELSE [ret |-> 0,
                  c |-> [c EXCEPT !.integer = string_to_int(c.string).v,
                                  !.type = mixer_ctl_get_type(c.name),
                                  !.ref = c.name]]
      [] mixer_ctl_get_type(c.name) = "MIXER_CTL_TYPE_ENUM" ->
            [ret |-> 0,
             c |-> [c EXCEPT !.type = mixer_ctl_get_type(c.name),
                             !.ref = c.name]]
      [] OTHER -> [ret |-> -EINVAL, c |-> c]

\* ctl_open of one struct ctl: [ret, a, c] with a what alsa becomes.  A
\* valid ctl_ref returns at once; else the name is looked up, and looked up
\* once more after mixer_add_new_ctls when tinyalsa does not list it.
ctl_open_looked_up(a, c) ==
    IF c.name \notin a.ctl
    THEN [ret |-> -ENOENT, a |-> a, c |-> c]
    ELSE [ret |-> ctl_open_found(c).ret, a |-> a, c |-> ctl_open_found(c).c]

\* ctl_open looking the name up although the ctl_ref is valid
ctl_open_by_name_always(a, c) ==
    IF c.name \in a.ctl
    THEN ctl_open_looked_up(mixer_get_ctl_by_name(a, c.name), c)
    ELSE ctl_open_looked_up(
             mixer_get_ctl_by_name(
                 mixer_add_new_ctls(mixer_get_ctl_by_name(a, c.name)),
                 c.name), c)

ctl_open_by_name(a, c) ==
    IF ctl_ref_valid(c) THEN [ret |-> 0, a |-> a, c |-> c]
    ELSE IF c.name \in a.ctl
    THEN ctl_open_looked_up(mixer_get_ctl_by_name(a, c.name), c)
    ELSE ctl_open_looked_up(
             mixer_get_ctl_by_name(
                 mixer_add_new_ctls(mixer_get_ctl_by_name(a, c.name)),
                 c.name), c)

\* pin.fail names a write by the control and the value index, or by the
\* control and one of these for a write or a read of the whole control
WholeCtl == -1
ReadBack == -2

\* mixer_ctl_set_value: tinyalsa refuses an index the control does not have
mixer_ctl_set_value(a, name, index, value) ==
    [a EXCEPT !.calls =
        Append(@, Call("mixer_ctl_set_value", name, index, value,
                       IF index >= mixer_ctl_get_num_values(name) THEN -EINVAL
                       ELSE IF <<name, index>> \in pin.fail THEN -1 ELSE 0))]

mixer_ctl_set_array(a, name, count) ==
    [a EXCEPT !.calls =
        Append(@, Call("mixer_ctl_set_array", name, 0, count,
                       IF count > mixer_ctl_get_num_values(name) THEN -EINVAL
                       ELSE IF <<name, WholeCtl>> \in pin.fail THEN -1 ELSE 0))]

mixer_ctl_get_array(a, name, count) ==
    [a EXCEPT !.calls =
        Append(@, Call("mixer_ctl_get_array", name, 0, count,
                       IF <<name, ReadBack>> \in pin.fail THEN -1 ELSE 0))]

mixer_ctl_set_enum_by_string(a, name) ==
    [a EXCEPT !.calls =
        Append(@, Call("mixer_ctl_set_enum_by_string", name, 0, 0,
                       IF <<name, WholeCtl>> \in pin.fail THEN -1 ELSE 0))]

\* memcpy(&buffer[index], data, array_count) into the work buffer
memcpy(a, c) ==
    [a EXCEPT !.calls =
        Append(@, Call("memcpy", c.name, c.index, c.array_count, 0))]

\* The copy goes past the end of the work buffer
Overflows(c) == c.index + c.array_count > c.buffer

\* what the last call returned
Err(a) == a.calls[Len(a.calls)].err

\* The loop over the values of a control without index, from value vnum on,
\* going on to the next value after a failed write
RECURSIVE set_values_all(_, _, _)
set_values_all(a, c, vnum) ==
    IF vnum >= mixer_ctl_get_num_values(c.ref) THEN a
    ELSE set_values_all(mixer_ctl_set_value(a, c.ref, vnum, c.integer),
                        c, vnum + 1)

\* The loop over the values of a control without index, from value vnum on:
\* it ends at the first write that fails
RECURSIVE set_values(_, _, _)
set_values(a, c, vnum) ==
    IF vnum >= mixer_ctl_get_num_values(c.ref) THEN a
    ELSE IF Err(mixer_ctl_set_value(a, c.ref, vnum, c.integer)) < 0
    THEN mixer_ctl_set_value(a, c.ref, vnum, c.integer)
    ELSE set_values(mixer_ctl_set_value(a, c.ref, vnum, c.integer),
                    c, vnum + 1)

\* The body of the loop of apply_ctls_l after ctl_open, on an open control:
\* [a, crash].  A copy past the end of the work buffer is undefined: ub
\* says whether the process survives it.
apply_ctl_values(a, c, ub) ==
    CASE mixer_ctl_get_type(c.ref) \in {"MIXER_CTL_TYPE_BOOL",
                                        "MIXER_CTL_TYPE_INT"} ->
            [a |-> IF c.index = INVALID_CTL_INDEX
                   THEN set_values(a, c, 0)
                   ELSE mixer_ctl_set_value(a, c.ref, c.index, c.integer),
             crash |-> FALSE]
      [] mixer_ctl_get_type(c.ref) = "MIXER_CTL_TYPE_BYTE" ->
            IF c.index = 0 /\ c.array_count = mixer_ctl_get_num_values(c.ref)
            THEN [a |-> mixer_ctl_set_array(a, c.ref, c.array_count),
                  crash |-> FALSE]
            ELSE LET got == mixer_ctl_get_array(
                                a, c.ref, mixer_ctl_get_num_values(c.ref))
                 IN IF Err(got) < 0 THEN [a |-> got, crash |-> FALSE]
                    ELSE IF Overflows(c) /\ ub = "SIGSEGV"
                    THEN [a |-> memcpy(got, c), crash |-> TRUE]
                    ELSE [a |-> mixer_ctl_set_array(
                                    memcpy(got, c), c.ref,
                                    mixer_ctl_get_num_values(c.ref)),
                          crash |-> FALSE]
      [] mixer_ctl_get_type(c.ref) = "MIXER_CTL_TYPE_ENUM" ->
            [a |-> mixer_ctl_set_enum_by_string(a, c.ref), crash |-> FALSE]
      [] OTHER -> [a |-> a, crash |-> FALSE]

\* b = [a, ctls, crash]: alsa, the ctl_array and whether the process died
Opened(b, i) == ctl_open_by_name(b.a, b.ctls[i])

Written(b, i, ub) == apply_ctl_values(Opened(b, i).a, Opened(b, i).c, ub)

\* apply_ctls_l from control i on, value by value: the loop ends at the
\* first control that does not open; a write that fails is logged only
RECURSIVE apply_ctls_l_values(_, _, _)
apply_ctls_l_values(b, i, ub) ==
    IF i > Len(b.ctls) \/ b.crash THEN b
    ELSE IF Opened(b, i).ret # 0
    THEN [b EXCEPT !.a = Opened(b, i).a, !.ctls[i] = Opened(b, i).c]
    ELSE apply_ctls_l_values(
             [a |-> Written(b, i, ub).a,
              ctls |-> [b.ctls EXCEPT ![i] = Opened(b, i).c],
              crash |-> Written(b, i, ub).crash],
             i + 1, ub)

\* parse_ctl_start on the <ctl> elements of the path from element i on, in
\* the order of the file: [ret, b].  A control the card does not have is
\* left to be opened when it is used; any other error of ctl_open ends the
\* load.
RECURSIVE parse_ctl_start_all(_, _)
parse_ctl_start_all(b, i) ==
    IF i > Len(b.ctls) THEN [ret |-> 0, b |-> b]
    ELSE IF Opened(b, i).ret \notin {0, -ENOENT}
    THEN [ret |-> Opened(b, i).ret,
          b |-> [b EXCEPT !.a = Opened(b, i).a, !.ctls[i] = Opened(b, i).c]]
    ELSE parse_ctl_start_all(
             [b EXCEPT !.a = Opened(b, i).a, !.ctls[i] = Opened(b, i).c],
             i + 1)

(***************************************************************************)
(* The paths bound and written, the data files and the writes that fail    *)
(***************************************************************************)
MaxCtls == 2        \* a path has at most MaxCtls controls

DataFiles ==
    [file \in {"/d1", "/d3"} |->
        IF file = "/d1" THEN <<7>> ELSE <<7, 8, 9>>]

\* The <ctl> elements: numbers and a word for the integer control of two
\* values, a word for the enumerated control and, for the byte control of
\* two bytes, a literal list and a data file that fit and a literal list
\* and a data file that do not
BindCtls ==
    {new_ctl("Gain", INVALID_CTL_INDEX, <<"1">>, NoName),
     new_ctl("Gain", 1, <<"2">>, NoName),
     new_ctl("Gain", INVALID_CTL_INDEX, <<"x">>, NoName),
     new_ctl("Mode", INVALID_CTL_INDEX, <<"x">>, NoName),
     new_ctl("Coeff", INVALID_CTL_INDEX, <<"1", "2">>, NoName),
     new_ctl("Coeff", 1, <<"1", "2">>, NoName),
     new_ctl("Coeff", 1, NoValue, "/d1"),
     new_ctl("Coeff", 1, NoValue, "/d3")}

RECURSIVE SeqsUpTo(_, _)
SeqsUpTo(S, n) ==
    IF n = 0 THEN {<<>>}
    ELSE SeqsUpTo(S, n - 1)
         \cup {Append(q, x) : q \in {p \in SeqsUpTo(S, n - 1) : Len(p) = n - 1},
                              x \in S}

BindPaths == SeqsUpTo(BindCtls, MaxCtls) \ {<<>>}

Fails == {{}, {<<"Gain", 0>>, <<"Mode", WholeCtl>>, <<"Coeff", ReadBack>>}}

\* init_audio_config has not been called: the card has some of its
\* controls, tinyalsa lists them when the mixer is opened
InitBind ==
    /\ cfg = CtlConfig
    /\ state = NoState
    /\ use_count = [d \in Devs |-> 0]
    /\ ref_count = [s \in Streams |-> 0]
    /\ current_devices = [s \in Streams |-> {}]
    /\ held = [s \in Streams |-> 0]
    /\ last = Last("start", NoStream, {}, NoName, TRUE, <<>>)
    /\ routers = [d \in Devs |-> {}]
    /\ clean = [d \in Devs |-> TRUE]
    /\ onW = [d \in Devs |-> 0]
    /\ offW = [d \in Devs |-> 0]
    /\ lock = 0
    /\ tpc = [t \in Threads |-> "idle"]
    /\ targ = [t \in Threads |-> [own |-> [s \in Streams |-> 0]]]
    /\ slock = [s \in Streams |-> 0]
    /\ mixer \in SUBSET DOMAIN SoundCard
    /\ alsa = [ctl |-> mixer, calls |-> <<>>]
    /\ ctl_array \in BindPaths
    /\ bound = {}
    /\ wr = <<>>
    /\ ret = 0
    /\ pin \in {[fail |-> f, data |-> DataFiles] : f \in Fails}

\* What a step of this specification leaves alone
BindFrame ==
    UNCHANGED <<cfg, state, use_count, ref_count, current_devices, held,
                ghost, mt, bound, wr, pin>>

\* init_audio_config: the mixer is open, parse_ctl_start runs for each
\* <ctl> of the path
LoadCtls ==
    /\ last.op = "start"
    /\ LET r == parse_ctl_start_all(
                    [a |-> [alsa EXCEPT !.calls = <<>>], ctls |-> ctl_array,
                     crash |-> FALSE], 1)
       IN /\ alsa' = r.b.a
          /\ ctl_array' = r.b.ctls
          /\ ret' = r.ret
          /\ last' = Last("init_audio_config", NoStream, {}, NoName,
                          r.ret = 0, <<>>)
    /\ UNCHANGED mixer
    /\ BindFrame

\* A call that applies the path, on the manager init_audio_config returned
ApplyCtls ==
    /\ last.op \in {"init_audio_config", "apply_ctls_l"}
    /\ last.ok
    /\ \E ub \in {"none", "SIGSEGV"} :
          LET b == apply_ctls_l_values(
                       [a |-> [alsa EXCEPT !.calls = <<>>],
                        ctls |-> ctl_array, crash |-> FALSE], 1, ub)
          IN /\ alsa' = b.a
             /\ ctl_array' = b.ctls
             /\ ret' = 0
             /\ last' = Last("apply_ctls_l", NoStream, {}, NoName,
                             ~b.crash, <<>>)
    /\ UNCHANGED mixer
    /\ BindFrame

\* The card gets a control (a codec driver registers it)
CardAddsCtl ==
    /\ last.ok
    /\ \E name \in DOMAIN SoundCard \ mixer : mixer' = mixer \cup {name}
    /\ UNCHANGED <<alsa, ctl_array, ret, last>>
    /\ BindFrame

NextBind ==
    \/ LoadCtls
    \/ ApplyCtls
    \/ CardAddsCtl

SpecBind == InitBind /\ [][NextBind]_vars

(***************************************************************************)
(* The configuration loader                                                *)
(*                                                                         *)
(* A file is the sequence of the events expat reports for it, a start tag  *)
(* with its attributes or an end tag; the text of a probe file and the     *)
(* names it is compared with are sequences of characters.  The elements    *)
(* loaded here are <audiohal>, <codec_probe>, <case>, <mixer>, <device>,   *)
(* <path>, <stream>, <enable>, <disable>, <usecase> and the <case> of a   *)
(* use case; file names are absolute.                                      *)
(***************************************************************************)
MAX_PARSE_DEPTH == 6

\* The events after the one that failed that one read of the file can hold
MaxBuffered == 2

\* sizeof(buf) in probe_config_file
sizeof_buf == 40

StartTag(name, attribs) == [tag |-> "start", name |-> name, attribs |-> attribs]
EndTag(name) == [tag |-> "end", name |-> name, attribs |-> <<>>]

\* Text that is no well-formed XML
Malformed == [tag |-> "malformed", name |-> NoName, attribs |-> <<>>]

attrib_table == {"name", "val", "path", "function", "type", "index", "dir",
                 "card", "device", "instances", "rate", "period_size",
                 "period_count", "min", "max", "file"}

elem_table ==
    [e_elem_ctl |->
        [name |-> "ctl",
         valid_attribs |-> {"name", "val", "index", "file"},
         required_attribs |-> {"name"},
         valid_subelem |-> {}],
     e_elem_path |->
        [name |-> "path",
         valid_attribs |-> {"name"},
         required_attribs |-> {"name"},
         valid_subelem |-> {"e_elem_ctl"}],
     e_elem_device |->
        [name |-> "device",
         valid_attribs |-> {"name"},
         required_attribs |-> {"name"},
         valid_subelem |-> {"e_elem_path"}],
     e_elem_stream |->
        [name |-> "stream",
         valid_attribs |-> {"name", "type", "dir", "card", "device",
                            "instances", "rate", "period_size",
                            "period_count"},
         required_attribs |-> {"type"},
         valid_subelem |-> {"e_elem_stream_ctl", "e_elem_enable",
                            "e_elem_disable", "e_elem_usecase", "e_elem_set"}],
     e_elem_enable |->
        [name |-> "enable",
         valid_attribs |-> {"path"},
         required_attribs |-> {"path"},
         valid_subelem |-> {}],
     e_elem_disable |->
        [name |-> "disable",
         valid_attribs |-> {"path"},
         required_attribs |-> {"path"},
         valid_subelem |-> {}],
     e_elem_case |->
        [name |-> "case",
         valid_attribs |-> {"name"},
         required_attribs |-> {"name"},
         valid_subelem |-> {"e_elem_ctl"}],
     e_elem_usecase |->
        [name |-> "usecase",
         valid_attribs |-> {"name"},
         required_attribs |-> {"name"},
         valid_subelem |-> {"e_elem_case"}],
     e_elem_init |->
        [name |-> "init",
         valid_attribs |-> {},
         required_attribs |-> {},
         valid_subelem |-> {"e_elem_ctl"}],
     e_elem_pre_init |->
        [name |-> "pre_init",
         valid_attribs |-> {},
         required_attribs |-> {},
         valid_subelem |-> {"e_elem_ctl"}],
     e_elem_mixer |->
        [name |-> "mixer",
         valid_attribs |-> {"name", "card"},
         required_attribs |-> {},
         valid_subelem |-> {"e_elem_pre_init", "e_elem_init"}],
     e_elem_audiohal |->
        [name |-> "audiohal",
         valid_attribs |-> {},
         required_attribs |-> {},
         valid_subelem |-> {"e_elem_mixer", "e_elem_codec_probe"}],
     e_elem_codec_probe |->
        [name |-> "codec_probe",
         valid_attribs |-> {"file"},
         required_attribs |-> {"file"},
         valid_subelem |-> {"e_elem_codec_case"}],
     e_elem_codec_case |->
        [name |-> "case",
         valid_attribs |-> {"name", "file"},
         required_attribs |-> {"name", "file"},
         valid_subelem |-> {}]]

parse_device_names ==
    {"global", "speaker", "earpiece", "headset", "headset_in", "headphone",
     "sco", "sco_in", "a2dp", "usb", "mic", "back mic", "voice", "aux"}

\* The sound cards of the machine, /proc/asound/card<n>/id
asound == [id \in {0} |-> "codec"]

get_card_id_for_name(name) ==
    IF name # NoName /\ \E id \in DOMAIN asound : asound[id] = name
    THEN 0
    ELSE -EINVAL

isspace(c) == c \in {" ", "\t", "\n", "\r", "\f"}

\* fgets(buf, size, fp) on a file just opened: the first line with its
\* newline, cut to size - 1 characters
LineEnd(text) ==
    IF \E k \in 1..Len(text) : text[k] = "\n"
    THEN CHOOSE k \in 1..Len(text) :
            text[k] = "\n" /\ \A j \in 1..(k - 1) : text[j] # "\n"
    ELSE Len(text)

fgets(text, size) ==
    SubSeq(text, 1, IF LineEnd(text) < size - 1 THEN LineEnd(text) ELSE size - 1)

RECURSIVE skip_spaces(_)
skip_spaces(str) ==
    IF str # <<>> /\ isspace(Head(str)) THEN skip_spaces(Tail(str)) ELSE str

RECURSIVE strip_end(_)
strip_end(str) ==
    IF Len(str) > 1 /\ isspace(str[Len(str)])
    THEN strip_end(SubSeq(str, 1, Len(str) - 1))
    ELSE str

\* probe_trim_spaces with the end of the line left as it is
probe_trim_spaces_leading(str) == skip_spaces(str)

probe_trim_spaces(str) == strip_end(skip_spaces(str))

\* struct parse_state after calloc, with the manager new_config_mgr made.
\* Array indices start at 1 here and at 0 in the code: a path id is its
\* index in path_name_array less one.  line is what
\* XML_GetCurrentLineNumber returns, the place of the event expat is handing
\* over.  current.path names the path the <ctl> elements go to, init_path
\* or preinit_path; alsa is the struct mixer of tinyalsa with the calls made
\* to it during the load.  hist, cause and err_at are history: the events
\* whose handler ran, what made the load fail and the event at which it
\* failed.
NoLine == <<NoName, 0>>

new_parse_state ==
    [pc |-> "init_audio_config",
     cur_xml_file |-> NoName,
     pos |-> 0,
     line |-> NoLine,
     error_line |-> NoLine,
     err_at |-> NoLine,
     parsing |-> "XML_INITIALIZED",
     xml_err |-> "XML_ERROR_NONE",
     parse_error |-> 0,
     stack |-> <<>>,
     current |-> [device |-> 0, stream |-> <<"none", 0>>, path |-> NoName],
     init_path |-> <<>>,
     preinit_path |-> <<>>,
     alsa |-> [ctl |-> {}, calls |-> <<>>],
     path_name_array |-> <<>>,
     init_probe |-> [file |-> NoName, codec_case_array |-> <<>>,
                     new_xml_file |-> NoName],
     cm |-> [mixer |-> FALSE,
             supported_input_devices |-> {},
             supported_output_devices |-> {},
             device_array |-> <<>>,
             anon_stream_array |-> <<>>,
             named_stream_array |-> <<>>],
     ret |-> 0,
     errno |-> 0,
     mgr |-> "none",
     hist |-> <<>>,
     cause |-> "none"]

\* A handler returns r
Ret(st, r) == [st EXCEPT !.ret = r]

\* The handler of the event expat is handing over goes past its test of
\* parse_error
Handle(st) == [st EXCEPT !.hist = Append(@, st.line)]

\* The load has failed at the event expat is handing over
FailedAt(st) == [st EXCEPT !.err_at = IF @ = NoLine THEN st.line ELSE @]

\* An allocation the input makes fail returns -ENOMEM
Alloc(st, what, done) ==
    IF pin.oom = what THEN Ret([st EXCEPT !.cause = "alloc"], -ENOMEM) ELSE done

find_path_name_any(names, name) == 0

\* The index of the name in the array, or -EINVAL
find_path_name(names, name) ==
    IF \E i \in 1..Len(names) : names[i] = name
    THEN (CHOOSE i \in 1..Len(names) :
             names[i] = name /\ \A j \in (i + 1)..Len(names) : names[j] # name) - 1
    ELSE -EINVAL

add_path_name(names, name) ==
    IF find_path_name(names, name) >= 0 THEN names ELSE Append(names, name)

init_state(st) ==
    [st EXCEPT !.path_name_array =
        add_path_name(add_path_name(@, "off"), "on")]

parse_path_start(st, value) ==
    Alloc(st, "new_path",
          Ret([st EXCEPT
                 !.path_name_array = add_path_name(@, value.name),
                 !.cm.device_array[st.current.device].path_array =
                     Append(@, find_path_name(
                                  add_path_name(st.path_name_array, value.name),
                                  value.name))],
              0))

parse_device_start(st, value) ==
    IF value.name \notin parse_device_names
    THEN Ret(st, -EINVAL)
    ELSE LET device_flag == device_table(value.name)
             existing == IF AUDIO_DEVICE_BIT_IN \cap device_flag # {}
                         THEN "supported_input_devices"
                         ELSE "supported_output_devices"
         IN IF device_flag # {} /\ device_flag \subseteq st.cm[existing]
            THEN Ret(st, -EINVAL)
            ELSE Ret([st EXCEPT
                        !.cm[existing] = @ \cup device_flag,
                        !.cm.device_array =
                            Append(@, [type |-> device_flag, path_array |-> <<>>]),
                        !.current.device = Len(st.cm.device_array) + 1],
                     0)

parse_enable_disable_start(st, value, is_enable) ==
    IF find_path_name(st.path_name_array, value.path) < 0
    THEN Ret(st, -EINVAL)
    ELSE Ret([st EXCEPT
                !.cm[st.current.stream[1]][st.current.stream[2]]
                    [IF is_enable THEN "enable_path" ELSE "disable_path"] =
                        find_path_name(st.path_name_array, value.path)],
             0)

new_stream(st, array) ==
    [st EXCEPT
        !.cm[array] = Append(@, [name |-> NoName, type |-> NoName,
                                 enable_path |-> -1, disable_path |-> -1,
                                 max_ref_count |-> INT_MAX]),
        !.current.stream = <<array, Len(st.cm[array]) + 1>>]

\* find_named_stream on the manager being built
stream_declared(cm, name) ==
    \E i \in 1..Len(cm.named_stream_array) :
        /\ cm.named_stream_array[i].name # NoName
        /\ cm.named_stream_array[i].name = name

stream_type(value) ==
    LET global == value.name = "global"
        out == value.dir = "out"
    IN CASE global -> "e_stream_global"
         [] ~global /\ value.type = "hw" ->
                IF value.name = NoName THEN NoName
                ELSE IF out THEN "e_stream_out_hw" ELSE "e_stream_in_hw"
         [] ~global /\ value.type = "pcm" ->
                IF out THEN "e_stream_out_pcm" ELSE "e_stream_in_pcm"
         [] ~global /\ value.type = "compress" ->
                IF out THEN "e_stream_out_compress" ELSE "e_stream_in_compress"
         [] OTHER -> NoName

\* parse_stream_start once the stream is in its array
parse_stream_attribs(st, value) ==
    IF \/ value.dir = NoName /\ value.name # "global"
       \/ value.dir \notin {NoName, "out", "in"}
       \/ stream_type(value) = NoName
       \/ \E a \in {"card", "device", "instances", "rate", "period_count",
                    "period_size"} : string_to_uint(value[a]).ret = -EINVAL
    THEN Ret(st, -EINVAL)
    ELSE Ret([st EXCEPT
                !.cm[st.current.stream[1]][st.current.stream[2]] =
                    [@ EXCEPT !.name = value.name,
                              !.type = stream_type(value),
                              !.max_ref_count =
                                  IF value.instances = NoName THEN INT_MAX
                                  ELSE string_to_uint(value.instances).v]],
             0)

parse_stream_start_no_check(st, value) ==
    parse_stream_attribs(
        new_stream(st, IF value.name # NoName THEN "named_stream_array"
                       ELSE "anon_stream_array"),
        value)

parse_stream_start(st, value) ==
    IF value.name # NoName /\ stream_declared(st.cm, value.name)
    THEN Ret(st, -EINVAL)
    ELSE parse_stream_attribs(
            new_stream(st, IF value.name # NoName THEN "named_stream_array"
                           ELSE "anon_stream_array"),
            value)

\* mixer_open reads the list of the controls the card has
mixer_open(a) ==
    [ctl |-> mixer,
     calls |-> Append(a.calls, Call("mixer_open", NoName, 0, 0, 0))]

mixer_close(a) ==
    [ctl |-> {},
     calls |-> Append(a.calls, Call("mixer_close", NoName, 0, 0, 0))]

\* mixer_open finds the cards of the machine
parse_mixer_start(st, value) ==
    LET card == string_to_uint(value.card)
    IN IF card.ret = 0 /\ value.name # NoName
       THEN Ret(st, -EINVAL)
       ELSE IF card.ret # 0 /\ get_card_id_for_name(value.name) # 0
       THEN Ret(st, -EINVAL)
       ELSE IF card.ret = 0 /\ card.v \notin DOMAIN asound
       THEN Ret(st, -EINVAL)
       ELSE Ret([st EXCEPT !.cm.mixer = TRUE, !.alsa = mixer_open(@)], 0)

\* parse_mixer_end adding <device> and <stream> to what <audiohal> may hold
parse_mixer_end_adding(st) ==
    Ret([st EXCEPT !.stack[Len(st.stack) - 1].valid_subelem =
                       @ \cup {"e_elem_device", "e_elem_stream"}],
        0)

\* entry[index - 1] is the parent of the element on top of the stack
parse_mixer_end(st) ==
    Ret([st EXCEPT !.stack[Len(st.stack) - 1].valid_subelem =
                       {"e_elem_device", "e_elem_stream"}],
        0)

\* <init>: its controls go to init_path, and the <mixer> around it takes no
\* further <init> or <pre_init>
parse_init_start(st) ==
    Ret([st EXCEPT !.current.path = "init_path",
                   !.stack[Len(st.stack) - 1].valid_subelem =
                       @ \ {"e_elem_pre_init", "e_elem_init"}],
        0)

parse_init_end(st) == Ret([st EXCEPT !.current.path = NoName], 0)

parse_preinit_start(st) == Ret([st EXCEPT !.current.path = "preinit_path"], 0)

\* apply_path_l on the path held in field path of the parse state.  No file
\* loaded here holds a byte-array control, so no copy leaves a work buffer.
apply_path_of(st, path) ==
    LET b == apply_ctls_l_values(
                 [a |-> st.alsa, ctls |-> st[path], crash |-> FALSE], 1, "none")
    IN [st EXCEPT !.alsa = b.a, ![path] = b.ctls]

\* </pre_init> leaving the controls to be written with those of <init>
parse_preinit_end_deferred(st) ==
    Ret([st EXCEPT !.current.path = NoName,
                   !.alsa = mixer_open(mixer_close(@))],
        0)

\* </pre_init>: the pre_init controls read so far are written, then the
\* mixer is closed and opened again; the card is still there
parse_preinit_end(st) ==
    Ret([apply_path_of([st EXCEPT !.current.path = NoName], "preinit_path")
            EXCEPT !.alsa = mixer_open(mixer_close(@))],
        0)

\* <ctl name=.. val=.. index=..> or <ctl name=.. file=.. index=..>; a <ctl>
\* outside <init> and <pre_init> goes to a path or a case, which are not
\* kept here
parse_ctl_start(st, value) ==
    IF string_to_uint(value.index).ret = -EINVAL THEN Ret(st, -EINVAL)
    ELSE LET c == new_ctl(value.name,
                          IF string_to_uint(value.index).ret = 0
                          THEN string_to_uint(value.index).v
                          ELSE INVALID_CTL_INDEX,
                          CASE value.file # NoName -> NoValue
                            [] value.val # NoName -> <<value.val>>,
                          value.file)
             r == ctl_open_by_name(st.alsa, c)
         IN Ret(CASE st.current.path = NoName -> [st EXCEPT !.alsa = r.a]
                  [] OTHER -> [st EXCEPT !.alsa = r.a,
                                         ![st.current.path] = Append(@, r.c)],
                IF r.ret = -ENOENT THEN 0 ELSE r.ret)

\* <usecase name=..> and <case name=..> in a stream: new_usecase and
\* new_case allocate; the use cases of a stream are not kept here
parse_usecase_start(st, value) == Alloc(st, "new_usecase", Ret(st, 0))

parse_case_start(st, value) == Alloc(st, "new_case", Ret(st, 0))

parse_codec_probe_start(st, value) ==
    IF st.init_probe.file = NoName
    THEN Ret([st EXCEPT !.init_probe.file = value.file], 0)
    ELSE Ret(st, -EINVAL)

parse_codec_case_start(st, value) ==
    Ret([st EXCEPT !.init_probe.codec_case_array =
                       Append(@, [codec_name |-> value.name, file |-> value.file])],
        0)

\* expat: a parser stopped for good reports XML_ERROR_ABORTED, a parser
\* stopped to be resumed makes XML_Parse return XML_STATUS_SUSPENDED
XML_StopParser(st, resumable) ==
    IF resumable
    THEN [st EXCEPT !.parsing = "XML_SUSPENDED"]
    ELSE FailedAt([st EXCEPT !.parsing = "XML_FINISHED",
                             !.xml_err = "XML_ERROR_ABORTED"])

\* The first case of the array with the name, 0 when there is none
find_codec_case(cases, codec) ==
    IF \E i \in 1..Len(cases) : cases[i].codec_name = codec
    THEN CHOOSE i \in 1..Len(cases) :
            /\ cases[i].codec_name = codec
            /\ \A j \in 1..(i - 1) : cases[j].codec_name # codec
    ELSE 0

probe_redirect(st, file) ==
    IF file = st.cur_xml_file
    THEN Ret(XML_StopParser([st EXCEPT !.init_probe.new_xml_file = NoName,
                                       !.cause = "grammar"],
                            FALSE),
             -EINVAL)
    ELSE Ret(XML_StopParser([st EXCEPT !.init_probe.new_xml_file = file], TRUE), 0)

\* probe_config_file with a self-redirect taken for no match
probe_config_file_ignore_self(st, text) ==
    LET cases == st.init_probe.codec_case_array
        i == find_codec_case(cases, probe_trim_spaces(fgets(text, sizeof_buf)))
    IN IF text = <<>>
       THEN Ret(st, -EIO)
       ELSE IF i = 0 \/ cases[i].file = st.cur_xml_file
       THEN Ret([st EXCEPT !.init_probe.new_xml_file = NoName], 0)
       ELSE probe_redirect(st, cases[i].file)

\* text is what the probe file holds once it can be opened
probe_config_file(st, text) ==
    LET cases == st.init_probe.codec_case_array
        i == find_codec_case(cases, probe_trim_spaces(fgets(text, sizeof_buf)))
    IN IF text = <<>>
       THEN Ret(st, -EIO)
       ELSE IF i = 0
       THEN Ret([st EXCEPT !.init_probe.new_xml_file = NoName], 0)
       ELSE probe_redirect(st, cases[i].file)

\* The return value of probe_config_file is dropped
parse_codec_probe_end(st) ==
    Ret(probe_config_file(st, pin.probes[st.init_probe.file]), 0)

parse_set_error(st, error) ==
    [st EXCEPT !.parse_error = error,
               !.error_line = st.line,
               !.err_at = IF error < 0 /\ @ = NoLine THEN st.line ELSE @,
               !.cause = IF error < 0 /\ @ = "none" THEN "grammar" ELSE @]

extract_attribs(elem_index, attribs) ==
    IF \/ \E k \in 1..Len(attribs) :
             attribs[k][1] \notin elem_table[elem_index].valid_attribs
       \/ \E a \in elem_table[elem_index].required_attribs :
             \A k \in 1..Len(attribs) : attribs[k][1] # a
    THEN [ret |-> -EINVAL, value |-> <<>>]
    ELSE [ret |-> 0,
          value |-> [a \in attrib_table |->
                       IF \E k \in 1..Len(attribs) : attribs[k][1] = a
                       THEN attribs[CHOOSE k \in 1..Len(attribs) :
                                       attribs[k][1] = a][2]
                       ELSE NoName]]

start_fn(elem_index, st, value) ==
    CASE elem_index = "e_elem_path" -> parse_path_start(st, value)
      [] elem_index = "e_elem_device" -> parse_device_start(st, value)
      [] elem_index = "e_elem_stream" -> parse_stream_start(st, value)
      [] elem_index = "e_elem_enable" ->
            parse_enable_disable_start(st, value, TRUE)
      [] elem_index = "e_elem_disable" ->
            parse_enable_disable_start(st, value, FALSE)
      [] elem_index = "e_elem_mixer" -> parse_mixer_start(st, value)
      [] elem_index = "e_elem_codec_probe" -> parse_codec_probe_start(st, value)
      [] elem_index = "e_elem_codec_case" -> parse_codec_case_start(st, value)
      [] elem_index = "e_elem_usecase" -> parse_usecase_start(st, value)
      [] elem_index = "e_elem_case" -> parse_case_start(st, value)
      [] elem_index = "e_elem_ctl" -> parse_ctl_start(st, value)
      [] elem_index = "e_elem_init" -> parse_init_start(st)
      [] elem_index = "e_elem_pre_init" -> parse_preinit_start(st)
      [] elem_index = "e_elem_audiohal" -> Ret(st, 0)

\* The handlers parse_path_end, parse_device_end and parse_stream_end only
\* trim the arrays
end_fn(elem_index, st) ==
    CASE elem_index = "e_elem_mixer" -> parse_mixer_end(st)
      [] elem_index = "e_elem_codec_probe" -> parse_codec_probe_end(st)
      [] elem_index = "e_elem_init" -> parse_init_end(st)
      [] elem_index = "e_elem_pre_init" -> parse_preinit_end(st)
      [] OTHER -> Ret(st, 0)

\* The element with the name among those valid here
find_elem(valid_elems, name) ==
    {i \in DOMAIN elem_table : i \in valid_elems /\ elem_table[i].name = name}

\* The element is pushed, then its attributes are read and its handler runs
parse_elem_start(st, i, attribs) ==
    IF extract_attribs(i, attribs).ret # 0
    THEN parse_set_error(st, -EINVAL)
    ELSE parse_set_error(start_fn(i, st, extract_attribs(i, attribs).value),
                         start_fn(i, st, extract_attribs(i, attribs).value).ret)

parse_section_start(st, name, attribs) ==
    IF st.parse_error # 0
    THEN st
    ELSE IF \/ find_elem(st.stack[Len(st.stack)].valid_subelem, name) = {}
            \/ Len(st.stack) - 1 >= MAX_PARSE_DEPTH
    THEN parse_set_error(Handle(st), -EINVAL)
    ELSE LET i == CHOOSE e \in find_elem(st.stack[Len(st.stack)].valid_subelem,
                                         name) : TRUE
         IN parse_elem_start(
                [Handle(st) EXCEPT !.stack =
                    Append(@, [elem_index |-> i,
                               valid_subelem |-> elem_table[i].valid_subelem])],
                i, attribs)

\* parse_section_end leaving the element on the stack
parse_section_end_no_pop(st) ==
    IF st.parse_error # 0
    THEN st
    ELSE LET done == end_fn(st.stack[Len(st.stack)].elem_index, Handle(st))
         IN [done EXCEPT
                !.parse_error = done.ret,
                !.err_at = IF done.ret < 0 /\ @ = NoLine THEN st.line ELSE @,
                !.cause = IF done.ret < 0 /\ @ = "none" THEN "grammar" ELSE @]

\* The end handler's result goes into parse_error as it is
parse_section_end(st) ==
    IF st.parse_error # 0
    THEN st
    ELSE LET done == end_fn(st.stack[Len(st.stack)].elem_index, Handle(st))
         IN [done EXCEPT
                !.parse_error = done.ret,
                !.err_at = IF done.ret < 0 /\ @ = NoLine THEN st.line ELSE @,
                !.cause = IF done.ret < 0 /\ @ = "none" THEN "grammar" ELSE @,
                !.stack = SubSeq(@, 1, Len(@) - 1)]

\* What expat does with one event of the file
XML_Parse(st, e) ==
    CASE e.tag = "start" -> parse_section_start(st, e.name, e.attribs)
      [] e.tag = "end" -> parse_section_end(st)
      [] e.tag = "malformed" ->
            FailedAt([st EXCEPT !.parsing = "XML_FINISHED",
                                !.xml_err = "XML_ERROR_SYNTAX",
                                !.cause = "grammar"])

\* XML_Parse on what the buffer holds after the event at the read position:
\* expat goes on to event p and to at most n events in all, unless it was
\* stopped
RECURSIVE XML_ParseRest(_, _, _)
XML_ParseRest(st, p, n) ==
    IF \/ n = 0
       \/ p > Len(pin.files[st.cur_xml_file])
       \/ st.parsing \in {"XML_SUSPENDED", "XML_FINISHED"}
    THEN st
    ELSE XML_ParseRest(XML_Parse([st EXCEPT !.line = <<st.cur_xml_file, p>>],
                                 pin.files[st.cur_xml_file][p]),
                       p + 1, n - 1)

parse_log_error(st) ==
    IF st.parse_error < 0 \/ st.xml_err # "XML_ERROR_NONE" THEN -EINVAL ELSE 0

open_config_file(st, file) ==
    IF file \in DOMAIN pin.files
    THEN Ret([st EXCEPT !.cur_xml_file = file], 0)
    ELSE Ret([st EXCEPT !.cur_xml_file = file, !.cause = "open"], -ENOSYS)

\* init_audio_config returns what parse_config_file returned
init_audio_config_return(st, r) ==
    [st EXCEPT !.pc = "done",
               !.ret = r,
               !.errno = IF r # 0 THEN -r ELSE @,
               !.mgr = IF r # 0 THEN "NULL" ELSE "mgr"]

\* The head of the loop of parse_config_file, st.ret being what
\* open_config_file returned, up to the first read of do_parse
parse_config_file_loop(st) ==
    IF st.ret # 0
    THEN init_audio_config_return(st, -ENOMEM)
    ELSE [st EXCEPT
            !.pc = "do_parse",
            !.pos = 1,
            !.parse_error = 0,
            !.stack = <<[elem_index |-> NoName,
                         valid_subelem |-> {"e_elem_audiohal"}]>>,
            !.parsing = IF st.init_probe.new_xml_file # NoName
                        THEN "XML_INITIALIZED" ELSE @,
            !.xml_err = IF st.init_probe.new_xml_file # NoName
                        THEN "XML_ERROR_NONE" ELSE @,
            !.init_probe.file = IF st.init_probe.new_xml_file # NoName
                                THEN NoName ELSE @,
            !.init_probe.new_xml_file = NoName]

\* do_parse after XML_Parse has handled the event at the read position
do_parse(st) ==
    IF st.parsing = "XML_SUSPENDED"
    THEN [st EXCEPT !.pc = "open_config_file"]
    ELSE IF parse_log_error(st) < 0
    THEN init_audio_config_return(st, -EINVAL)
    ELSE [st EXCEPT !.pos = @ + 1]

\* init_audio_config up to the first read of the file
InitAudioConfig ==
    /\ state.pc = "init_audio_config"
    /\ state' =
         IF pin.oom = "parse_state"
         THEN init_audio_config_return([state EXCEPT !.cause = "alloc"], -ENOMEM)
         ELSE IF pin.oom = "XML_ParserCreate"
         THEN init_audio_config_return(
                  [init_state(state) EXCEPT !.cause = "alloc"], 0)
         ELSE parse_config_file_loop(
                  open_config_file(init_state(state), pin.config_file_name))
    /\ UNCHANGED <<cfg, use_count, ref_count, current_devices, held, last, ghost,
                   mt, ctlv>>

\* One event of the file goes through expat and the handlers.  When a
\* handler has set parse_error, expat still hands over the events that
\* follow in read_buf, up to MaxBuffered of them, before do_parse looks at
\* parse_error.  probe_config_file waits until the probe file can be opened.
DoParse ==
    /\ state.pc = "do_parse"
    /\ state.pos <= Len(pin.files[state.cur_xml_file])
    /\ LET e == pin.files[state.cur_xml_file][state.pos]
       IN /\ (e.tag = "end" /\ e.name = "codec_probe")
                => state.init_probe.file \in DOMAIN pin.probes
          /\ \E n \in 0..MaxBuffered :
                LET st == XML_Parse([state EXCEPT !.line =
                                        <<state.cur_xml_file, state.pos>>], e)
                IN state' = do_parse(IF st.parse_error # 0
                                     THEN XML_ParseRest(st, state.pos + 1, n)
                                     ELSE st)
    /\ UNCHANGED <<cfg, use_count, ref_count, current_devices, held, last, ghost,
                   mt, ctlv>>

\* The end of the file: expat wants a root element.  After the last file
\* parse_config_file applies the <init> path.
DoParseEof ==
    /\ state.pc = "do_parse"
    /\ state.pos > Len(pin.files[state.cur_xml_file])
    /\ state' =
         IF pin.files[state.cur_xml_file] = <<>>
         THEN init_audio_config_return(
                  [state EXCEPT !.xml_err = "XML_ERROR_NO_ELEMENTS",
                                !.cause = "grammar"], -EINVAL)
         ELSE init_audio_config_return(apply_path_of(state, "init_path"), 0)
    /\ UNCHANGED <<cfg, use_count, ref_count, current_devices, held, last, ghost,
                   mt, ctlv>>

\* The files whose first element the handlers have seen
FilesParsed(st) == Cardinality({k \in 1..Len(st.hist) : st.hist[k][2] = 1})

\* The loads followed here parse at most MaxParsed files, one after the other
MaxParsed == 4

\* parse_config_file opens the file the probe chose
OpenNewFile ==
    /\ state.pc = "open_config_file"
    /\ FilesParsed(state) < MaxParsed
    /\ state' = parse_config_file_loop(
                    open_config_file(state, state.init_probe.new_xml_file))
    /\ UNCHANGED <<cfg, use_count, ref_count, current_devices, held, last, ghost,
                   mt, ctlv>>

\* probe_config_file, called at the end of <codec_probe>, cannot open the
\* probe file and goes to sleep
ProbeOpenFails ==
    /\ state.pc = "do_parse"
    /\ state.pos <= Len(pin.files[state.cur_xml_file])
    /\ pin.files[state.cur_xml_file][state.pos] = EndTag("codec_probe")
    /\ state.init_probe.file \notin DOMAIN pin.probes
    /\ state' = [state EXCEPT !.pc = "usleep"]
    /\ UNCHANGED <<cfg, use_count, ref_count, current_devices, held, last, ghost,
                   mt, ctlv>>

\* usleep returns and probe_config_file tries the probe file again
ProbeSleep ==
    /\ state.pc = "usleep"
    /\ state' = [state EXCEPT !.pc = "do_parse"]
    /\ UNCHANGED <<cfg, use_count, ref_count, current_devices, held, last, ghost,
                   mt, ctlv>>

NextLoad ==
    \/ InitAudioConfig
    \/ DoParse
    \/ DoParseEof
    \/ OpenNewFile
    \/ ProbeOpenFails
    \/ ProbeSleep

(***************************************************************************)
(* The files loaded                                                        *)
(***************************************************************************)
Attr(name, value) == <<name, value>>

\* Elements without children, one after the other
Leaves(starts) ==
    [k \in 1..(2 * Len(starts)) |->
        IF k % 2 = 1 THEN starts[(k + 1) \div 2]
        ELSE EndTag(starts[k \div 2].name)]

Element(name, attribs, children) ==
    <<StartTag(name, attribs)>> \o children \o <<EndTag(name)>>

Document(probe, body) == Element("audiohal", <<>>, probe \o body)

CodecProbe(file, cases) ==
    Element("codec_probe", <<Attr("file", file)>>,
            Leaves([i \in 1..Len(cases) |->
                      StartTag("case", <<Attr("name", cases[i][1]),
                                         Attr("file", cases[i][2])>>)]))

MixerElement == Element("mixer", <<Attr("card", "0")>>, <<>>)

DeviceElement(name, paths) ==
    Element("device", <<Attr("name", name)>>,
            Leaves([i \in 1..Len(paths) |->
                      StartTag("path", <<Attr("name", paths[i])>>)]))

\* A stream with one <enable> or <disable>
StreamElement(attribs, ref, path) ==
    Element("stream", attribs, Leaves(<<StartTag(ref, <<Attr("path", path)>>)>>))

NamedOut(name) == <<Attr("name", name), Attr("type", "hw"), Attr("dir", "out")>>
AnonOut == <<Attr("type", "pcm"), Attr("dir", "out"), Attr("instances", "2")>>

\* What a file holds in <audiohal>, after <mixer> or without one, is up to
\* MaxItems of these
Items ==
    {DeviceElement("speaker", <<"on", "hifi">>),
     DeviceElement("mic", <<"rec", "off">>),
     DeviceElement("tv", <<"on">>),
     StreamElement(NamedOut("vt"), "enable", "hifi"),
     StreamElement(NamedOut("vt"), "disable", "off"),
     StreamElement(NamedOut("music"), "disable", "rec"),
     StreamElement(AnonOut, "enable", "nope"),
     StreamElement(AnonOut, "enable", "on"),
     StreamElement(<<Attr("name", "vt"), Attr("dir", "out")>>, "enable", "on"),
     Element("path", <<Attr("name", "rec")>>, <<>>),
     MixerElement,
     CodecProbe("/probe", <<>>),
     <<Malformed>>}

MaxItems == 2

RECURSIVE Bodies(_)
Bodies(n) ==
    IF n = 0 THEN {<<>>}
    ELSE Bodies(n - 1) \cup {b \o i : b \in Bodies(n - 1), i \in Items}

\* The probe files of the machine
ProbeFiles(text) ==
    [p \in {"/probe", "/probe2"} |-> IF p = "/probe" THEN text ELSE <<"c", "\n">>]

\* One file that redirects to no other
PlainFiles ==
    {[config_file_name |-> "/a.xml",
      files |-> [f \in {"/a.xml"} |-> Document(<<>>, lead \o body)],
      probes |-> ProbeFiles(<<>>),
      oom |-> "none"] : lead \in {<<>>, MixerElement}, body \in Bodies(MaxItems)}

\* Files that cannot be loaded whatever they hold
BadFiles ==
    {[config_file_name |-> name,
      files |-> [f \in {"/a.xml", "/e.xml", "/m.xml"} |->
                   CASE f = "/a.xml" ->
                          Document(<<>>, MixerElement
                                         \o DeviceElement("speaker", <<"hifi">>))
                     [] f = "/e.xml" -> <<>>
                     [] f = "/m.xml" ->
                          Document(<<>>, DeviceElement("speaker", <<"hifi">>))],
      probes |-> ProbeFiles(<<>>),
      oom |-> oom] :
        name \in {"/a.xml", "/e.xml", "/m.xml", "/none.xml"},
        oom \in {"none", "parse_state", "XML_ParserCreate", "new_path"}}

\* The names of the codecs and what a probe file can hold
LongName == [i \in 1..(sizeof_buf - 1) |-> "a"]

ProbeTexts ==
    {<<>>, <<"\n">>, <<"a">>, <<"a", "\n">>, <<" ", "a", " ", "\n", "b">>,
     <<"b", "\n", "a">>, <<"a", "b", "\n">>, <<"\t", "a", " ", "b", "\n">>,
     <<"c", "\n">>, LongName \o <<"a", "a", "\n">>, LongName \o <<"\n">>}

CaseLists ==
    {<<>>,
     << <<<<"a">>, "/b.xml">> >>,
     << <<<<"a">>, "/a.xml">> >>,
     << <<<<"b">>, "/a.xml">>, <<<<"a">>, "/b.xml">>, <<<<"a">>, "/a.xml">> >>,
     << <<<<"a", " ", "b">>, "/b.xml">>, <<<<"b">>, "/none.xml">> >>,
     << <<LongName, "/b.xml">> >>,
     << <<<<>>, "/b.xml">> >>}

\* The file the probe of /a.xml can choose: without a probe, with a probe
\* of the same file, with a probe of a second file that names /c.xml
Targets ==
    {Document(<<>>, MixerElement \o StreamElement(NamedOut("vt"), "enable", "hifi")),
     Document(<<>>, MixerElement \o DeviceElement("speaker", <<"hifi">>)
                    \o StreamElement(NamedOut("vt"), "enable", "hifi")),
     Document(CodecProbe("/probe", << <<<<"a">>, "/c.xml">> >>), MixerElement),
     Document(CodecProbe("/probe2", << <<<<"c">>, "/c.xml">> >>), MixerElement),
     Document(CodecProbe("/probe3", << <<<<"c">>, "/c.xml">> >>), MixerElement)}

ProbedFiles ==
    {[config_file_name |-> "/a.xml",
      files |-> [f \in {"/a.xml", "/b.xml", "/c.xml"} |->
                   CASE f = "/a.xml" ->
                          Document(CodecProbe("/probe", cases),
                                   MixerElement
                                   \o StreamElement(NamedOut("vt"), "enable", "on"))
                     [] f = "/b.xml" -> target
                     [] f = "/c.xml" ->
                          Document(<<>>, MixerElement
                              \o StreamElement(NamedOut("vt"), "disable", "off"))],
      probes |-> ProbeFiles(text),
      oom |-> "none"] :
        cases \in CaseLists, text \in ProbeTexts, target \in Targets}

MaxBlocks == 2      \* a <mixer> holds at most MaxBlocks <init> / <pre_init>

CtlElement(name, val) ==
    Element("ctl", <<Attr("name", name), Attr("val", val)>>, <<>>)

\* What a <mixer> can hold
Blocks ==
    {Element("pre_init", <<>>, CtlElement("Gain", "1")),
     Element("pre_init", <<>>, CtlElement("Mode", "x") \o CtlElement("Gain", "2")),
     Element("init", <<>>, CtlElement("Gain", "2")),
     Element("init", <<>>, CtlElement("Mode", "x") \o CtlElement("Gain", "0"))}

RECURSIVE Flat(_)
Flat(blocks) ==
    IF blocks = <<>> THEN <<>> ELSE Head(blocks) \o Flat(Tail(blocks))

\* One file whose <mixer> holds <pre_init> and <init> blocks, with or
\* without an element after the mixer that fails the load
MixerFiles ==
    {[config_file_name |-> "/a.xml",
      files |-> [f \in {"/a.xml"} |->
                   Document(<<>>,
                            Element("mixer", <<Attr("card", "0")>>, Flat(blocks))
                            \o tail)],
      probes |-> ProbeFiles(<<>>),
      oom |-> "none"] :
        blocks \in SeqsUpTo(Blocks, MaxBlocks),
        tail \in {<<>>, DeviceElement("tv", <<"on">>)}}

\* A file the probe redirects to one whose <mixer> holds an <init>
ChainedMixerFiles ==
    {[config_file_name |-> "/a.xml",
      files |-> [f \in {"/a.xml", "/b.xml"} |->
                   IF f = "/a.xml"
                   THEN Document(CodecProbe("/probe", << <<<<"a">>, "/b.xml">> >>),
                                 Element("mixer", <<Attr("card", "0")>>,
                                         Flat(<<block>>)))
                   ELSE Document(<<>>,
                                 Element("mixer", <<Attr("card", "0")>>,
                                         Flat(<<block>>)))],
      probes |-> ProbeFiles(<<"a", "\n">>),
      oom |-> "none"] : block \in Blocks}

\* The controls the card can have while the configuration is loaded
LoadCards == {DOMAIN SoundCard, {"Gain"}}

\* The input of a load on a card with these controls, where no write fails
OnCard(input, card) ==
    [config_file_name |-> input.config_file_name, files |-> input.files,
     probes |-> input.probes, oom |-> input.oom,
     card |-> card, fail |-> {}, data |-> DataFiles]

\* /a.xml, whose probe names /b.xml, and /b.xml, whose probe of the same or
\* of the other probe file names /a.xml
CyclicFiles ==
    {[config_file_name |-> "/a.xml",
      files |-> [f \in {"/a.xml", "/b.xml"} |->
                   IF f = "/a.xml"
                   THEN Document(CodecProbe("/probe", << <<<<"a">>, "/b.xml">> >>),
                                 MixerElement)
                   ELSE Document(CodecProbe(back[1], << <<back[2], "/a.xml">> >>),
                                 MixerElement)],
      probes |-> ProbeFiles(<<"a", "\n">>),
      oom |-> "none"] :
        back \in {<<"/probe", <<"a">>>>, <<"/probe2", <<"c">>>>}}

\* The elements nested one in the other, the first around the rest
RECURSIVE Nested(_)
Nested(starts) ==
    IF starts = <<>> THEN <<>>
    ELSE Element(Head(starts).name, Head(starts).attribs, Nested(Tail(starts)))

\* The deepest nestings the grammar has, under <audiohal>
LegalChains ==
    {<<StartTag("stream", NamedOut("vt")),
       StartTag("usecase", <<Attr("name", "mode")>>),
       StartTag("case", <<Attr("name", "voice")>>),
       StartTag("ctl", <<Attr("name", "Gain"), Attr("val", "1")>>)>>,
     <<StartTag("device", <<Attr("name", "speaker")>>),
       StartTag("path", <<Attr("name", "on")>>),
       StartTag("ctl", <<Attr("name", "Gain"), Attr("val", "1")>>)>>}

\* What a file nests below the start of a legal nesting, at most MaxNest
\* of them
NestElems ==
    {StartTag("ctl", <<Attr("name", "Gain"), Attr("val", "2")>>),
     StartTag("case", <<Attr("name", "music")>>),
     StartTag("stream", AnonOut)}

MaxNest == 2

\* One file with the start of a legal nesting, other elements nested below
\* it, and a second element after it
DeepFiles ==
    {[config_file_name |-> "/a.xml",
      files |-> [f \in {"/a.xml"} |->
                   Document(<<>>,
                            MixerElement
                            \o Nested(chain \o more)
                            \o DeviceElement("mic", <<"rec">>))],
      probes |-> ProbeFiles(<<>>),
      oom |-> oom] :
        chain \in UNION {{SubSeq(c, 1, n) : n \in 1..Len(c)} : c \in LegalChains},
        more \in SeqsUpTo(NestElems, MaxNest),
        oom \in {"none", "new_case"}}

LoadInputs ==
    {OnCard(input, DOMAIN SoundCard) :
        input \in PlainFiles \cup BadFiles \cup ProbedFiles \cup DeepFiles
                  \cup CyclicFiles}
    \cup {OnCard(input, card) : input \in MixerFiles \cup ChainedMixerFiles,
                                card \in LoadCards}

\* init_audio_config is about to be called on one of the inputs
InitLoadOn(inputs) ==
    /\ cfg = 1
    /\ \E input \in inputs :
          /\ NoCallYet(input)
          /\ mixer = input.card
    /\ alsa = [ctl |-> {}, calls |-> <<>>]
    /\ bound = {}
    /\ state = new_parse_state

InitLoad == InitLoadOn(LoadInputs)

\* The loads whose probe file, when there is one, names codec "a", and
\* whose redirections do not come back to a file
ProbeWaitInputs ==
    {input \in LoadInputs :
        /\ input.probes["/probe"] = <<"a", "\n">>
        /\ input.files \notin {c.files : c \in CyclicFiles}}

SpecLoad == InitLoad /\ [][NextLoad]_vars

\* init_audio_config runs on a thread that is scheduled again and again
SpecLoadFair ==
    InitLoadOn(ProbeWaitInputs) /\ [][NextLoad]_vars /\ WF_vars(NextLoad)

(***************************************************************************)
(* Properties                                                              *)
(***************************************************************************)
HasPath(d, id) == \E i \in 1..Len(device_array[d].paths) : device_array[d].paths[i] = id
HasOnOff(d) == HasPath(d, e_path_id_on) /\ HasPath(d, e_path_id_off)
IsGlobal(d) == device_array[d].type = {}
Card(S) == Cardinality(S)
EvIdx == 1..Len(last.ev)

\* C1: for a device with both an 'on' and an 'off' path that N different
\* streams have enabled (each once, the device unreferenced before) and
\* that k < N of them have disabled again, the 'on' controls have been
\* written exactly once and the 'off' controls not at all, and use_count
\* is N - k; once all N have disabled it the 'off' controls have been
\* written exactly once.
C1_OnOnceOffAtLast ==
    \A d \in Devs :
        (HasOnOff(d) /\ ~IsGlobal(d) /\ clean[d]) =>
            /\ use_count[d] = Card(routers[d])
            /\ IF routers[d] # {}
               THEN onW[d] = 1 /\ offW[d] = 0
               ELSE onW[d] = offW[d] /\ onW[d] <= 1

\* Two streams had enabled the device and one of them has just disabled it
\* without the 'off' controls being written.
C1_Witness ==
    \E d \in Devs :
        /\ HasOnOff(d) /\ ~IsGlobal(d) /\ clean[d]
        /\ Card(routers[d]) = 1 /\ onW[d] = 1 /\ offW[d] = 0
        /\ last.op = "apply_route"
        /\ \E i \in EvIdx : /\ last.ev[i].dev = d
                            /\ last.ev[i].id = e_path_id_off
                            /\ ~last.ev[i].wrote

\* C2: an apply_route(s, D) that directly follows an apply_route(s, D) with
\* the same stream and the same mask makes no path request at all and leaves
\* every use_count and every current_devices as it was.
C2_SecondRouteIsNoop ==
    [][ ( /\ last.op = "apply_route"
          /\ last'.op = "apply_route"
          /\ last'.s = last.s
          /\ last'.devices = last.devices )
        => ( /\ last'.ev = <<>>
             /\ use_count' = use_count
             /\ current_devices' = current_devices ) ]_vars

\* The second of two identical accepted calls has just run; the route is
\* not empty.
C2_Witness ==
    /\ last.op = "apply_route" /\ last.ok /\ last.ev = <<>>
    /\ last.devices # {}
    /\ current_devices[last.s] = last.devices
    /\ \E d \in Devs : use_count[d] > 0 /\ ~IsGlobal(d)

AnonOfType(type) ==
    {s \in Streams : stream_array[s].name = NoName /\ stream_array[s].type = type}

RECURSIVE SumOver(_, _)
SumOver(f, S) ==
    IF S = {} THEN 0
    ELSE LET x == CHOOSE y \in S : TRUE IN f[x] + SumOver(f, S \ {x})

InstanceCap(type) ==
    SumOver([s \in Streams |-> stream_array[s].max_ref_count], AnonOfType(type))
HeldTotal(type) == SumOver(held, AnonOfType(type))

\* C3: get_stream for a type succeeds exactly when fewer acquisitions of
\* that type are outstanding than its declarations allow in total, and a
\* failing get_stream changes no ref_count; get_named_stream succeeds
\* exactly when the name is declared and fewer acquisitions of that stream
\* are outstanding than its instances value.
C3_InstanceCap ==
    [][ /\ (last'.op = "get_stream") =>
              /\ last'.ok <=> (HeldTotal(last'.what) < InstanceCap(last'.what))
              /\ ~last'.ok => ref_count' = ref_count
        /\ (last'.op = "get_named_stream") =>
              /\ last'.ok <=>
                    \E s \in Streams :
                        /\ stream_array[s].name = last'.what
                        /\ held[s] < stream_array[s].max_ref_count
              /\ ~last'.ok => ref_count' = ref_count ]_vars

\* get_stream has just failed on a type with two declarations, all of whose
\* instances are held.
C3_Witness ==
    /\ last.op = "get_stream" /\ ~last.ok
    /\ Card(AnonOfType(last.what)) = 2
    /\ HeldTotal(last.what) = InstanceCap(last.what)
    /\ InstanceCap(last.what) = 3

\* A device is covered by a stream's route when it is of the stream's
\* direction and shares a device bit with the route.
Covers(d, s, cur) ==
    /\ ~IsGlobal(d)
    /\ (31 \in device_array[d].type) = stream_is_input(stream_array[s])
    /\ (device_array[d].type \cap (cur \ AUDIO_DEVICE_BIT_IN)) # {}

Requested(d, id) ==
    \E i \in 1..Len(last.ev) : last.ev[i].dev = d /\ last.ev[i].id = id

\* C4: a release_stream that takes ref_count from 1 to 0 requests 'off' on
\* every device (declaring 'off') that the stream's route covered and the
\* disable/'off' paths the global device declares, and leaves the route
\* empty; a release_stream that leaves ref_count above 0 makes no path
\* request and changes no current_devices and no use_count.
C4_ReleaseTearsDown ==
    [][ (last'.op = "release_stream") =>
          LET s == last'.s IN
          /\ (ref_count[s] = 1) =>
                /\ \A d \in Devs :
                      (Covers(d, s, current_devices[s]) /\ HasPath(d, e_path_id_off))
                          => Requested(d, e_path_id_off)'
                /\ \A d \in Devs :
                      (IsGlobal(d) /\ HasPath(d, e_path_id_off)
                         /\ \A g \in Devs : IsGlobal(g) => d <= g)
                          => Requested(d, e_path_id_off)'
                /\ current_devices'[s] = {}
          /\ (ref_count[s] > 1) =>
                /\ last'.ev = <<>>
                /\ current_devices' = current_devices
                /\ use_count' = use_count ]_vars

\* C5: a release_stream of a stream whose ref_count is 0 or less makes no
\* path request and changes no use_count.
C5_ReleaseAtZero ==
    [][ (last'.op = "release_stream" /\ ref_count[last'.s] <= 0)
            => (last'.ev = <<>> /\ use_count' = use_count) ]_vars

\* A stream with ref_count 0 and a route has just been released.
C5_Witness ==
    /\ last.op = "release_stream"
    /\ ref_count[last.s] = -1
    /\ current_devices[last.s] # {}

\* C6: every device's use_count is >= 0 as long as callers release only
\* streams they hold.
C6_UseCountNonNegative == \A d \in Devs : use_count[d] >= 0

\* The positions at which a thread's next step writes the mixer or changes
\* a ref_count, a current_devices or a use_count
WritePcs == {"apply_route:locked", "get_stream:locked",
             "get_named_stream:locked", "release_stream:locked",
             "apply_use_case:locked", "set_hw_volume:left",
             "set_hw_volume:right"}

\* C7: a thread that is about to write the mixer or to change a ref_count,
\* a current_devices or a use_count inside get_stream, get_named_stream,
\* release_stream, apply_route, apply_use_case or set_hw_volume holds the
\* manager's lock, so no two threads are at such a point together.
C7_WritesUnderLock ==
    /\ \A t \in Threads : tpc[t] \in WritePcs => lock = t
    /\ \A t, u \in Threads :
          tpc[t] \in WritePcs /\ tpc[u] \in WritePcs => t = u

Mismatch(s, devices) ==
    /\ devices # {}
    /\ (31 \in devices) # (stream_array[s].type \in
                             {"e_stream_in_pcm", "e_stream_in_compress",
                              "e_stream_in_hw"})

\* C8: apply_route with a non-empty mask of the wrong direction makes no
\* path request and changes no use_count and no current_devices;
\* apply_route with the mask 0 is accepted whatever the direction, makes no
\* 'on' or enable request and leaves the stream's route empty.
C8_DirectionMismatch ==
    [][ (last'.op = "apply_route") =>
          /\ Mismatch(last'.s, last'.devices) =>
                /\ ~last'.ok
                /\ last'.ev = <<>>
                /\ use_count' = use_count
                /\ current_devices' = current_devices
          /\ (last'.devices = {}) =>
                /\ last'.ok
                /\ current_devices'[last'.s] = {}
                /\ \A i \in 1..Len(last'.ev) : last'.ev[i].phase = "disabling" ]_vars

\* A mask of the wrong direction has just been rejected on a routed stream.
C8_Witness ==
    /\ last.op = "apply_route" /\ ~last.ok
    /\ Mismatch(last.s, last.devices)
    /\ current_devices[last.s] # {}

\* C9: among the path requests of one apply_route call, every request of
\* the disabling pass comes before every request of the enabling pass; on a
\* removed device the stream's custom disable path comes before 'off'; on
\* an added device 'on' comes before the stream's custom enable path.
C9_RouteOrder ==
    (last.op = "apply_route") =>
        LET s == last.s IN
        \A i \in EvIdx, j \in EvIdx :
            LET a == last.ev[i]
                b == last.ev[j]
            IN  /\ (a.phase = "disabling" /\ b.phase = "enabling") => i < j
                /\ ( /\ a.dev = b.dev
                     /\ a.phase = "disabling" /\ b.phase = "disabling"
                     /\ a.id = stream_array[s].disable_path
                     /\ a.id >= e_path_id_custom_base
                     /\ b.id = e_path_id_off ) => i < j
                /\ ( /\ a.dev = b.dev
                     /\ a.phase = "enabling" /\ b.phase = "enabling"
                     /\ a.id = e_path_id_on
                     /\ b.id = stream_array[s].enable_path
                     /\ b.id >= e_path_id_custom_base ) => i < j

\* One call removed a device with a custom disable path and added one with
\* a custom enable path declared before its 'on' path.
C9_Witness ==
    /\ last.op = "apply_route"
    /\ Len(last.ev) = 4
    /\ last.ev[1].phase = "disabling" /\ last.ev[1].id = 3
    /\ last.ev[2].phase = "disabling" /\ last.ev[2].id = e_path_id_off
    /\ last.ev[3].phase = "enabling" /\ last.ev[3].id = e_path_id_on
    /\ last.ev[4].phase = "enabling" /\ last.ev[4].id = 2
    /\ last.ev[4].idx < last.ev[3].idx

\* C10: the global device's use_count equals the number of streams with
\* ref_count > 0; its 'on' controls are written only by a call that takes
\* the number of open streams from 0 to 1 and its 'off' controls only by
\* one that takes it back to 0; a stream's 0->1 transition requests 'on'
\* before the custom enable path and its 1->0 transition the custom
\* disable path before 'off'.
OpenStreams == {s \in Streams : ref_count[s] > 0}

C10_GlobalCountsOpenStreams ==
    /\ [] (\A d \in Devs : IsGlobal(d) => use_count[d] = Card(OpenStreams))
    /\ [][ \A i \in 1..Len(last'.ev) :
             LET e == last'.ev[i] IN
             (IsGlobal(e.dev) /\ e.wrote) =>
                /\ (e.id = e_path_id_on) =>
                       Card(OpenStreams) = 0 /\ Card(OpenStreams') = 1
                /\ (e.id = e_path_id_off) =>
                       Card(OpenStreams) = 1 /\ Card(OpenStreams') = 0 ]_vars

InRange(p) == p >= 0 /\ p <= 100

\* C11: set_hw_volume returns -EINVAL and writes nothing when the left or
\* the right percentage is outside 0..100, whichever volume controls the
\* stream declares; with both in range and no volume control it returns an
\* error and writes nothing.
C11_VolumeRejects ==
    last.op = "set_hw_volume" =>
        /\ (~InRange(pin.left_pc) \/ ~InRange(pin.right_pc))
               => (ret = -EINVAL /\ wr = <<>>)
        /\ ( /\ InRange(pin.left_pc) /\ InRange(pin.right_pc)
             /\ ~pin.stream.volume_left.valid
             /\ ~pin.stream.volume_right.valid )
               => (ret < 0 /\ wr = <<>>)

C11_Witness ==
    /\ last.op = "set_hw_volume"
    /\ pin.stream.volume_left.valid /\ pin.stream.volume_right.valid
    /\ pin.left_pc = 50 /\ pin.right_pc = 101
    /\ ret = -EINVAL /\ wr = <<>>

\* n / d truncated toward zero, for d > 0
TruncDiv(n, d) ==
    CHOOSE q \in -(2 ^ (IntBits + 1))..(2 ^ (IntBits + 1)) :
        /\ n - q * d > -d /\ n - q * d < d
        /\ (n - q * d = 0) \/ ((n - q * d > 0) = (n > 0))

\* The value C12 gives for percentage p on a control with range min..max,
\* in unbounded integers
VolValue(volctl, p) ==
    IF p = 0 THEN volctl.min
    ELSE IF p = 100 THEN volctl.max
    ELSE volctl.min + TruncDiv((volctl.max - volctl.min) * p, 100)

WritesTo(volctl, p) ==
    {i \in 1..Len(wr) :
        wr[i] = MixerWrite(volctl.ctl, volctl.index, VolValue(volctl, p))}

\* C12: for percentages in 0..100 set_hw_volume writes to each declared
\* volume control the value min for 0, max for 100 and otherwise
\* min + ((max - min) * p) / 100 truncated toward zero, without overflow for
\* any int min and max; p is the left percentage for the left control and
\* the right one for the right control, and (left + right) / 2 when only the
\* left control is declared.
C12_VolumeValue ==
    (last.op = "set_hw_volume" /\ InRange(pin.left_pc) /\ InRange(pin.right_pc))
    => LET left == pin.stream.volume_left
           right == pin.stream.volume_right
       IN  /\ Len(wr) = (IF left.valid THEN 1 ELSE 0)
                         + (IF right.valid THEN 1 ELSE 0)
           /\ (left.valid /\ right.valid)
                  => WritesTo(left, pin.left_pc) # {}
           /\ (left.valid /\ ~right.valid)
                  => WritesTo(left, TruncDiv(pin.left_pc + pin.right_pc, 2)) # {}
           /\ right.valid => WritesTo(right, pin.right_pc) # {}

C12_Witness ==
    /\ last.op = "set_hw_volume"
    /\ pin.stream.volume_left.valid /\ ~pin.stream.volume_right.valid
    /\ pin.stream.volume_left.min = INT_MIN
    /\ pin.stream.volume_left.max = INT_MAX
    /\ pin.left_pc = 0 /\ pin.right_pc = 99
    /\ Len(wr) = 1
    /\ wr[1].value > INT_MIN /\ wr[1].value < 0

\* The writes of the controls ctls, one per control
CtlWrites(ctls) ==
    [i \in 1..Len(ctls) |-> MixerWrite(ctls[i].name, ctls[i].index, ctls[i].value)]

\* The number of controls at the head of ctls whose ctl_ref is valid
BoundPrefixLen(ctls) ==
    CHOOSE n \in 0..Len(ctls) :
        /\ \A i \in 1..n : ctls[i].id \in bound
        /\ n < Len(ctls) => ctls[n + 1].id \notin bound

\* The writes of ctls up to the first control that is not bound
Applied(ctls) == SubSeq(CtlWrites(ctls), 1, BoundPrefixLen(ctls))

\* The <u, c> with usecase u of stream s named setting and its case c named
\* case_name
Declared(s, setting, case_name) ==
    {uc \in (1..Len(stream_array[s].usecase_array)) \X (1..2) :
        /\ stream_array[s].usecase_array[uc[1]].name = setting
        /\ uc[2] <= Len(stream_array[s].usecase_array[uc[1]].cases)
        /\ stream_array[s].usecase_array[uc[1]].cases[uc[2]] = case_name}

CaseCtlsOf(s, uc) == stream_array[s].usecase_array[uc[1]].ctls[uc[2]]

C14_UseCaseIndependent ==
    [][ (last'.op = "apply_use_case" /\ mixer' = mixer) =>
          /\ UNCHANGED <<use_count, ref_count, current_devices>>
          /\ (ret' = 0) = (Declared(pin'.s, pin'.setting, pin'.case_name) # {})
          /\ ret' = 0 =>
                \E uc \in Declared(pin'.s, pin'.setting, pin'.case_name) :
                    LET ctls == CaseCtlsOf(pin'.s, uc)
                    IN  /\ Len(wr') <= Len(ctls)
                        /\ wr' = SubSeq(CtlWrites(ctls), 1, Len(wr'))
                        /\ Len(wr') < Len(ctls) =>
                               (ctls[Len(wr') + 1].id \notin bound
                                /\ (ctls[Len(wr') + 1].name \notin mixer
                                    \/ ~ctls[Len(wr') + 1].valid)) ]_vars

C14_Witness ==
    /\ last.op = "apply_use_case"
    /\ ret = 0 /\ wr # <<>>
    /\ ref_count[pin.s] = 0 /\ current_devices[pin.s] = {}

RouteOps == {"apply_route", "get_stream", "release_stream"}

\* The writes of the paths a call applied, from event k on
RECURSIVE PathWrites(_, _)
PathWrites(ev, k) ==
    IF k > Len(ev) THEN <<>>
    ELSE (IF ev[k].wrote THEN Applied(device_array[ev[k].dev].ctls[ev[k].idx])
          ELSE <<>>) \o PathWrites(ev, k + 1)

\* The number of requests of path id on device d among the events
Requests(ev, d, id) ==
    Card({k \in 1..Len(ev) : ev[k].dev = d /\ ev[k].id = id})

OnCtls(d) ==
    UNION {Range(CtlWrites(device_array[d].ctls[i])) :
              i \in {j \in 1..Len(device_array[d].paths) :
                         device_array[d].paths[j] = e_path_id_on}}

\* C20: when a control of a path or case cannot be bound at write time,
\* the controls before it are written and the rest of that path or case is
\* skipped; every requested 'on' / 'off' still counts in the device's
\* use_count; apply_route, get_stream, release_stream and apply_use_case
\* still report success; and no call writes the 'on' controls of a device
\* that stays referenced.
C20_UnboundControl ==
    /\ [](last.op \in RouteOps => wr = PathWrites(last.ev, 1))
    /\ [](last.op = "apply_use_case" /\ ret = 0 =>
             \E uc \in Declared(pin.s, pin.setting, pin.case_name) :
                 wr = Applied(CaseCtlsOf(pin.s, uc)))
    /\ [][ (last'.op \in RouteOps /\ last'.s # NoStream /\ mixer' = mixer) =>
            /\ last'.ok
            /\ \A d \in Devs :
                  /\ use_count'[d] = use_count[d]
                                       + Requests(last'.ev, d, e_path_id_on)
                                       - Requests(last'.ev, d, e_path_id_off)
                  /\ (use_count[d] >= 1 /\ use_count'[d] >= 1) =>
                        \A i \in 1..Len(wr') : wr'[i] \notin OnCtls(d) ]_vars

\* get_stream applied the 'on' path of the speaker while "DSP Mode" was
\* missing; the control exists by now and the device is still referenced
C20_Witness ==
    /\ last.op = "get_stream" /\ last.ok
    /\ wr = << MixerWrite("SPK Switch", INVALID_CTL_INDEX, 1) >>
    /\ use_count[1] = 1
    /\ "DSP Mode" \in mixer /\ 2 \notin bound

\* The event of the files the k-th step of the parser handled
Handled(k) == pin.files[state.hist[k][1]][state.hist[k][2]]

\* The value the start tag gives the attribute
AttrOf(e, a) == e.attribs[CHOOSE k \in 1..Len(e.attribs) : e.attribs[k][1] = a][2]

IsStart(e, name) == e.tag = "start" /\ e.name = name

\* The path names a reference handled k-th can use: the predefined ones and
\* those of the <path> elements handled before it
DeclaredBefore(k) ==
    {"on", "off"} \cup
    {AttrOf(Handled(j), "name") :
        j \in {i \in 1..(k - 1) : IsStart(Handled(i), "path")}}

\* The <enable> and <disable> handled that name a path not declared before
Undeclared ==
    {k \in 1..Len(state.hist) :
        /\ IsStart(Handled(k), "enable") \/ IsStart(Handled(k), "disable")
        /\ AttrOf(Handled(k), "path") \notin DeclaredBefore(k)}

\* C15: an <enable> or <disable> whose path is neither 'on' nor 'off' nor the
\* name of a <path> element earlier in the files parsed ends the load, which
\* returns no manager; a <path> of that name later in the file does not help
C15_UndeclaredPathFails ==
    state.pc = "done" =>
        \A k \in Undeclared : k = Len(state.hist) /\ state.mgr = "NULL"

\* A load that failed at an <enable> of a path the file declares further on
C15_Witness ==
    /\ state.pc = "done" /\ state.mgr = "NULL"
    /\ Len(state.hist) \in Undeclared
    /\ \E i \in (state.pos + 1)..Len(pin.files[state.cur_xml_file]) :
          /\ IsStart(pin.files[state.cur_xml_file][i], "path")
          /\ AttrOf(pin.files[state.cur_xml_file][i], "name") =
                AttrOf(Handled(Len(state.hist)), "path")

HasAttr(e, a) == \E k \in 1..Len(e.attribs) : e.attribs[k][1] = a

\* The <stream> elements handled that carry a name
NamedStreams ==
    {k \in 1..Len(state.hist) :
        IsStart(Handled(k), "stream") /\ HasAttr(Handled(k), "name")}

\* Those whose name an earlier one carries
Redeclared ==
    {k \in NamedStreams :
        \E j \in NamedStreams :
            j < k /\ AttrOf(Handled(j), "name") = AttrOf(Handled(k), "name")}

\* C16: a <stream> whose name an earlier <stream> of the files parsed carries
\* ends the load, which returns no manager; the named streams of a manager
\* that is returned have different names
C16_NamedStreamsUnique ==
    state.pc = "done" =>
        /\ \A k \in Redeclared : k = Len(state.hist) /\ state.mgr = "NULL"
        /\ state.mgr = "mgr" =>
              \A i, j \in 1..Len(state.cm.named_stream_array) :
                  state.cm.named_stream_array[i].name =
                      state.cm.named_stream_array[j].name => i = j

\* A load that failed at the second <stream name="vt">
C16_Witness ==
    /\ state.pc = "done" /\ state.mgr = "NULL"
    /\ Len(state.hist) \in Redeclared
    /\ AttrOf(Handled(Len(state.hist)), "name") = "vt"
    /\ Len(state.cm.named_stream_array) = 1

\* The characters of the text before its first newline
TextLine(text) ==
    SubSeq(text, 1,
           CHOOSE n \in 0..Len(text) :
               /\ \A j \in 1..n : text[j] # "\n"
               /\ n = Len(text) \/ text[n + 1] = "\n")

\* The line from its first to its last character that is no white space
Trimmed(line) ==
    LET solid == {k \in 1..Len(line) : ~isspace(line[k])}
    IN IF solid = {} THEN <<>>
       ELSE SubSeq(line, CHOOSE k \in solid : \A j \in solid : k <= j,
                         CHOOSE k \in solid : \A j \in solid : j <= k)

\* The first n characters of the line
Cut(line, n) == SubSeq(line, 1, IF Len(line) < n THEN Len(line) ELSE n)

\* The parser is about to handle the end of a <codec_probe> block whose
\* probe file can be opened
AtProbeEnd ==
    /\ state.pc = "do_parse"
    /\ state.pos <= Len(pin.files[state.cur_xml_file])
    /\ pin.files[state.cur_xml_file][state.pos] = EndTag("codec_probe")
    /\ state.init_probe.file \in DOMAIN pin.probes

\* The <case> elements handled that carry the name, in the order handled
Lookup(codec) ==
    {k \in 1..Len(state.hist) :
        IsStart(Handled(k), "case") /\ AttrOf(Handled(k), "name") = codec}

\* The file of the first of them
Chosen(codec) ==
    AttrOf(Handled(CHOOSE k \in Lookup(codec) : \A j \in Lookup(codec) : k <= j),
           "file")

\* The parser goes on with the next event of the file, the manager, the
\* path names and the elements valid under <audiohal> being what they were
\* when the block opened
ProbeIgnored ==
    /\ state'.pc = "do_parse"
    /\ state'.cur_xml_file = state.cur_xml_file
    /\ state'.pos = state.pos + 1
    /\ state'.parse_error = 0 /\ state'.xml_err = "XML_ERROR_NONE"
    /\ state'.cm = state.cm
    /\ state'.path_name_array = state.path_name_array
    /\ state'.stack =
          <<[elem_index |-> NoName, valid_subelem |-> {"e_elem_audiohal"}],
            [elem_index |-> "e_elem_audiohal",
             valid_subelem |-> {"e_elem_mixer", "e_elem_codec_probe"}]>>

\* Parsing of the file stops without error, for the file chosen to be opened
ProbeFollowed(file) ==
    /\ state'.pc = "open_config_file"
    /\ state'.init_probe.new_xml_file = file
    /\ state'.parse_error = 0 /\ state'.xml_err = "XML_ERROR_NONE"
    /\ state'.cm = state.cm
    /\ state'.path_name_array = state.path_name_array

\* What the end of the block does when codec is looked up
ProbeRule(codec) ==
    /\ (Lookup(codec) # {} /\ Chosen(codec) # state.cur_xml_file)
          => ProbeFollowed(Chosen(codec))
    /\ Lookup(codec) = {} => ProbeIgnored

\* The file chosen is read from its first event on, into the same manager
TargetParsedFromStart ==
    (/\ state.pc = "open_config_file"
     /\ state' # state
     /\ state.init_probe.new_xml_file \in DOMAIN pin.files)
    => /\ state'.pc = "do_parse"
       /\ state'.cur_xml_file = state.init_probe.new_xml_file
       /\ state'.pos = 1
       /\ state'.parse_error = 0 /\ state'.xml_err = "XML_ERROR_NONE"
       /\ state'.cm = state.cm
       /\ state'.path_name_array = state.path_name_array
       /\ state'.stack =
             <<[elem_index |-> NoName, valid_subelem |-> {"e_elem_audiohal"}]>>

ProbeCodec ==
    Trimmed(Cut(TextLine(pin.probes[state.init_probe.file]), sizeof_buf - 1))

\* The probe file names a case whose file is the one being parsed
SelfRedirect ==
    /\ pin.probes[state.init_probe.file] # <<>>
    /\ Lookup(ProbeCodec) # {}
    /\ Chosen(ProbeCodec) = state.cur_xml_file

\* C18: when the case the probe file names has the file being parsed as its
\* target, the load ends there and returns no manager: the parser neither
\* goes on with the file nor opens it again
C18_SelfRedirectFatal ==
    [][(AtProbeEnd /\ state' # state /\ SelfRedirect)
         => /\ state'.pc = "done"
            /\ state'.mgr = "NULL"
            /\ state'.errno = EINVAL
            /\ state'.init_probe.new_xml_file = NoName]_vars

\* The load of /a.xml ended at its <codec_probe> block, whose case "a" names
\* /a.xml
C18_Witness ==
    /\ state.pc = "done" /\ state.mgr = "NULL"
    /\ state.cur_xml_file = "/a.xml"
    /\ Handled(Len(state.hist)) = EndTag("codec_probe")
    /\ SelfRedirect
    /\ ProbeCodec = <<"a">>

\* C19: a load that fails returns no manager and sets errno to the kind of
\* the failure: ENOENT when the file to load, or the file a probe chose,
\* cannot be opened, EINVAL for a file that breaks the grammar, ENOMEM when
\* an allocation fails
C19_ErrorKind ==
    state.pc = "done" =>
        /\ state.cause # "none" => state.mgr = "NULL"
        /\ state.cur_xml_file # NoName /\ state.cur_xml_file \notin DOMAIN pin.files
              => state.errno = ENOENT
        /\ state.cause = "grammar" => state.errno = EINVAL
        /\ state.cause = "alloc" => state.errno = ENOMEM

\* C30: whatever the interleaving of get_stream, get_named_stream and
\* release_stream calls of threads that release only streams they acquired,
\* every stream has 0 <= ref_count <= max_ref_count and its ref_count is the
\* number of acquisitions of it that are outstanding
Outstanding(s) == SumOver([t \in Threads |-> targ[t].own[s]], Threads)

C30_RefCountIsOutstanding ==
    \A s \in Streams :
        /\ ref_count[s] >= 0
        /\ ref_count[s] <= stream_array[s].max_ref_count
        /\ ref_count[s] = Outstanding(s)

\* both threads hold the two-instance stream, one is about to release it
\* while the other asks for one more
C30_Witness ==
    /\ ref_count[2] = 2
    /\ targ[1].own[2] = 1 /\ targ[2].own[2] = 1
    /\ tpc[1] = "release_stream:lock"
    /\ tpc[2] = "get_stream:lock"

\* C24: a path other than 'on' and 'off' is never reference-counted.  Every
\* request of such a path writes its controls; a call changes a device's
\* use_count by the number of its 'on' requests less the number of its
\* 'off' requests on that device and by nothing else; and whenever a call
\* requests 'on' (or 'off') on a device that declares the stream's custom
\* enable (or disable) path, that custom path is executed in the same pass,
\* also when the 'on' (or 'off') controls themselves are not written.
Custom(id) == id >= e_path_id_custom_base

Count(ev, d, id) ==
    Card({i \in 1..Len(ev) : ev[i].dev = d /\ ev[i].id = id})

Executed(d, id, phase) ==
    \E j \in EvIdx : /\ last.ev[j].dev = d /\ last.ev[j].id = id
                     /\ last.ev[j].phase = phase /\ last.ev[j].wrote

C24_CustomPathsUncounted ==
    /\ [] (\A i \in EvIdx :
             LET e == last.ev[i] IN
             /\ Custom(e.id) => e.wrote
             /\ ( /\ e.id = e_path_id_on
                  /\ Custom(stream_array[last.s].enable_path)
                  /\ HasPath(e.dev, stream_array[last.s].enable_path) )
                  => Executed(e.dev, stream_array[last.s].enable_path, e.phase)
             /\ ( /\ e.id = e_path_id_off
                  /\ Custom(stream_array[last.s].disable_path)
                  /\ HasPath(e.dev, stream_array[last.s].disable_path) )
                  => Executed(e.dev, stream_array[last.s].disable_path, e.phase))
    /\ [][ \A d \in Devs :
             use_count'[d] = use_count[d] + Count(last'.ev, d, e_path_id_on)
                                          - Count(last'.ev, d, e_path_id_off) ]_vars

\* a stream has enabled a device another stream already had on: 'on' was
\* requested and not written, the stream's enable path was executed
C24_Witness ==
    /\ last.op = "apply_route"
    /\ \E i \in EvIdx, j \in EvIdx :
          /\ last.ev[i].dev = last.ev[j].dev
          /\ last.ev[i].id = e_path_id_on /\ ~last.ev[i].wrote
          /\ Custom(last.ev[j].id) /\ last.ev[j].wrote
          /\ last.ev[j].id = stream_array[last.s].enable_path
          /\ use_count[last.ev[i].dev] = 2

\* C29: the wait for the codec-probe file is bounded: init_audio_config
\* returns after finitely many sleep-and-retry attempts, also when the probe
\* file never becomes readable
C29_ProbeWaitBounded == <>(state.pc = "done")

\* C22: within one file a <device> or <stream> element is accepted only after
\* a <mixer> block was closed earlier in that file; a <device> or <stream>
\* before the mixer, a second <mixer> and a <codec_probe> after the mixer
\* each end the load at once, with no manager and errno EINVAL
Depth(f, p) ==
    Card({q \in 1..(p - 1) : pin.files[f][q].tag = "start"})
        - Card({q \in 1..(p - 1) : pin.files[f][q].tag = "end"})

TopLevel(f, p, name) == IsStart(pin.files[f][p], name) /\ Depth(f, p) = 1

MixerOpenedBefore(f, p) == \E q \in 1..(p - 1) : TopLevel(f, q, "mixer")

MixerClosedBefore(f, p) ==
    \E q \in 1..(p - 1) : pin.files[f][q] = EndTag("mixer") /\ Depth(f, q) = 2

OutOfOrder(f, p) ==
    \/ TopLevel(f, p, "device") /\ ~MixerClosedBefore(f, p)
    \/ TopLevel(f, p, "stream") /\ ~MixerClosedBefore(f, p)
    \/ TopLevel(f, p, "mixer") /\ MixerOpenedBefore(f, p)
    \/ TopLevel(f, p, "codec_probe") /\ MixerOpenedBefore(f, p)

C22_TopLevelOrder ==
    \A k \in 1..Len(state.hist) :
        OutOfOrder(state.hist[k][1], state.hist[k][2]) =>
            /\ k = Len(state.hist)
            /\ state.pc = "done" /\ state.mgr = "NULL" /\ state.errno = EINVAL

\* a load has ended at a second <mixer> that follows a <device> the first
\* <mixer> had made legal
C22_Witness ==
    /\ state.pc = "done" /\ state.mgr = "NULL"
    /\ Len(state.hist) > 1
    /\ TopLevel(state.hist[Len(state.hist)][1], state.hist[Len(state.hist)][2],
                "mixer")
    /\ OutOfOrder(state.hist[Len(state.hist)][1], state.hist[Len(state.hist)][2])
    /\ \E k \in 1..(Len(state.hist) - 1) :
          /\ TopLevel(state.hist[k][1], state.hist[k][2], "device")
          /\ ~OutOfOrder(state.hist[k][1], state.hist[k][2])

\* C27: when init_audio_config has returned, (1) a load that failed at some
\* element or for any other cause returned no manager, (2) no start or end
\* handler ran for an element after the one the load failed at, and (3) a
\* manager was returned only if every file of the chain was opened and
\* parsed to its end without error
LastHandled == state.hist[Len(state.hist)]

NoHandlerAfterError ==
    state.err_at # NoLine /\ state.hist # <<>> =>
        \/ LastHandled = state.err_at
        \/ LastHandled[1] # state.err_at[1]
        \/ LastHandled[2] < state.err_at[2]

ParsedToEnd ==
    /\ state.cause = "none" /\ state.err_at = NoLine
    /\ state.cur_xml_file \in DOMAIN pin.files
    /\ state.pos > Len(pin.files[state.cur_xml_file])
    /\ state.parse_error = 0 /\ state.xml_err = "XML_ERROR_NONE"

C27_FatalLoad ==
    state.pc = "done" =>
        /\ state.cause # "none" \/ state.err_at # NoLine => state.mgr = "NULL"
        /\ NoHandlerAfterError
        /\ state.mgr = "mgr" => ParsedToEnd

\* the same with the parser created: what C27 says of loads that get as far
\* as reading a file
C27_FatalLoadWithParser ==
    pin.oom # "XML_ParserCreate" => C27_FatalLoad

\* C28: a byte-array value whose index plus length exceeds the element
\* count of the control is refused when the control is bound, whether it is
\* a literal list or a data file, and is never cut short: every bound
\* byte-array control holds its whole value, index + array_count is at most
\* the element count, and no copy into the work buffer goes past its end
ValueLength(c) ==
    IF c.data_file_name # NoName THEN Len(pin.data[c.data_file_name])
    ELSE Len(c.string)

BoundBytes ==
    {i \in 1..Len(ctl_array) :
        /\ ctl_ref_valid(ctl_array[i])
        /\ ctl_array[i].type = "MIXER_CTL_TYPE_BYTE"}

C28_ByteArrayFits ==
    /\ \A i \in BoundBytes :
          /\ ctl_array[i].array_count = ValueLength(ctl_array[i])
          /\ ctl_array[i].index + ctl_array[i].array_count
                <= mixer_ctl_get_num_values(ctl_array[i].ref)
    /\ \A k \in 1..Len(alsa.calls) :
          alsa.calls[k].call = "memcpy" =>
              alsa.calls[k].at + alsa.calls[k].n
                  <= mixer_ctl_get_num_values(alsa.calls[k].ctl)

\* C21: a write the card refuses does not end the path.  After a call that
\* applied the path, the writes made are, control by control in the order
\* of the path up to the first control that did not open: for a control
\* with an index, for an enumerated and for a byte-array control its one
\* write, and for an integer control without index one write per value up
\* to and including the first value the card refused, none after it.
IsWrite(call) ==
    call.call \in {"mixer_ctl_set_value", "mixer_ctl_set_array",
                   "mixer_ctl_set_enum_by_string"}

Target(call) == [call |-> call.call, ctl |-> call.ctl, at |-> call.at]

\* the values of control c written when no index is given
ValuesTried(c) ==
    {v \in 0..(mixer_ctl_get_num_values(c.ref) - 1) :
        \A u \in 0..(v - 1) : <<c.ref, u>> \notin pin.fail}

WritesOf(c) ==
    CASE c.type = "MIXER_CTL_TYPE_INT" /\ c.index = INVALID_CTL_INDEX ->
            [v \in 1..Cardinality(ValuesTried(c)) |->
                [call |-> "mixer_ctl_set_value", ctl |-> c.ref, at |-> v - 1]]
      [] c.type = "MIXER_CTL_TYPE_INT" /\ c.index # INVALID_CTL_INDEX ->
            << [call |-> "mixer_ctl_set_value", ctl |-> c.ref,
                at |-> c.index] >>
      [] c.type = "MIXER_CTL_TYPE_ENUM" ->
            << [call |-> "mixer_ctl_set_enum_by_string", ctl |-> c.ref,
                at |-> 0] >>
      [] c.type = "MIXER_CTL_TYPE_BYTE" ->
            IF /\ <<c.ref, ReadBack>> \in pin.fail
               /\ ~(c.index = 0
                      /\ c.array_count = mixer_ctl_get_num_values(c.ref))
            THEN <<>>
            ELSE << [call |-> "mixer_ctl_set_array", ctl |-> c.ref,
                     at |-> 0] >>

\* the controls of the path before the first one that is not open
OpenPrefix(ctls) ==
    {i \in 1..Len(ctls) : \A j \in 1..i : ctl_ref_valid(ctls[j])}

RECURSIVE WritesUpTo(_, _)
WritesUpTo(ctls, i) ==
    IF i = 0 THEN <<>> ELSE WritesUpTo(ctls, i - 1) \o WritesOf(ctls[i])

WritesIn(calls) ==
    [k \in 1..Len(SelectSeq(calls, IsWrite)) |->
        Target(SelectSeq(calls, IsWrite)[k])]

C21_WriteFailureSkipsControl ==
    last.op = "apply_ctls_l" /\ last.ok =>
        WritesIn(alsa.calls)
            = WritesUpTo(ctl_array, Cardinality(OpenPrefix(ctl_array)))

\* the card refused value 0 of the first control, value 1 of it was not
\* written and the second control of the path was
C21_Witness ==
    /\ last.op = "apply_ctls_l" /\ last.ok
    /\ Len(ctl_array) = 2
    /\ ctl_array[1].index = INVALID_CTL_INDEX /\ ctl_array[1].ref = "Gain"
    /\ <<"Gain", 0>> \in pin.fail
    /\ \E k \in 1..Len(alsa.calls) :
          /\ alsa.calls[k].call = "mixer_ctl_set_value"
          /\ alsa.calls[k].at = 0 /\ alsa.calls[k].err < 0
          /\ k < Len(alsa.calls)
          /\ alsa.calls[Len(alsa.calls)].ctl = ctl_array[2].ref
          /\ alsa.calls[Len(alsa.calls)].ctl # "Gain"
          /\ IsWrite(alsa.calls[Len(alsa.calls)])

\* C25: deferred binding.  A control the card does not have when the
\* configuration is loaded does not fail the load.  In every later
\* application of the path, every control that is not bound is looked up by
\* name, with at most one refresh of the control list per control looked
\* up; a control the card has by then is bound and written in that
\* application; and a bound control stays bound and is not looked up again.
Unbound == {i \in 1..Len(ctl_array) : ~ctl_ref_valid(ctl_array[i])}

CallsOf(calls, what, name) ==
    {k \in 1..Len(calls) :
        calls[k].call \in what /\ (name # NoName => calls[k].ctl = name)}

Lookups(calls, name) == CallsOf(calls, {"mixer_get_ctl_by_name"}, name)

Touches(calls, name) ==
    CallsOf(calls, {"mixer_ctl_set_value", "mixer_ctl_set_array",
                    "mixer_ctl_set_enum_by_string", "mixer_ctl_get_array"},
            name)

\* a step that applies the path and returns
ApplyStep == last'.op = "apply_ctls_l" /\ last'.ok /\ mixer' = mixer

\* the load fails only at a control tinyalsa found
LoadIgnoresAbsent ==
    last.op = "init_audio_config" /\ ~last.ok =>
        /\ ret # -ENOENT
        /\ alsa.calls # <<>> /\ Err(alsa) = 0

\* bound controls are left alone, names are looked up for unbound controls
\* only, and the list is refreshed at most once per unbound control
BoundStaysBound ==
    /\ \A i \in (1..Len(ctl_array)) \ Unbound : ctl_array'[i] = ctl_array[i]
    /\ \A k \in Lookups(alsa'.calls, NoName) :
          \E i \in Unbound : ctl_array[i].name = alsa'.calls[k].ctl
    /\ \A name \in DOMAIN SoundCard :
          Cardinality(Lookups(alsa'.calls, name))
              <= 2 * Cardinality({i \in Unbound : ctl_array[i].name = name})
    /\ Cardinality(CallsOf(alsa'.calls, {"mixer_add_new_ctls"}, NoName))
          <= Cardinality(Unbound)

C25_DeferredBinding ==
    /\ []LoadIgnoresAbsent
    /\ [][ApplyStep =>
            /\ BoundStaysBound
            /\ \A i \in Unbound :
                  /\ Lookups(alsa'.calls, ctl_array[i].name) # {}
                  /\ ctl_array[i].name \in mixer =>
                        /\ ctl_ref_valid(ctl_array'[i])
                        /\ Touches(alsa'.calls, ctl_array[i].name) # {}]_vars

\* C25 as amended: the lookup is retried for the unbound controls the
\* application reaches, those with every control before them in the path
\* open; such a control is bound and written once the card has it if its
\* value fits the type and the size the control turns out to have
Reached(i) == \A j \in 1..(i - 1) : ctl_ref_valid(ctl_array'[j])

IsNumber(str) == str \in {"0", "1", "2"}

ValueFits(c) ==
    CASE mixer_ctl_get_type(c.name) = "MIXER_CTL_TYPE_INT" ->
            Len(c.string) = 1 /\ IsNumber(c.string[1])
      [] mixer_ctl_get_type(c.name) = "MIXER_CTL_TYPE_ENUM" -> TRUE
      [] mixer_ctl_get_type(c.name) = "MIXER_CTL_TYPE_BYTE" ->
            IF c.data_file_name # NoName
            THEN c.data_file_name \in DOMAIN pin.data
            ELSE /\ Len(c.string) > 0
                 /\ \A k \in 1..Len(c.string) : IsNumber(c.string[k])
                 /\ (IF c.index = INVALID_CTL_INDEX THEN 0 ELSE c.index)
                       + Len(c.string) <= mixer_ctl_get_num_values(c.name)

C25_DeferredBindingWhenReached ==
    /\ []LoadIgnoresAbsent
    /\ [][ApplyStep =>
            /\ BoundStaysBound
            /\ \A i \in Unbound :
                  Reached(i) =>
                     /\ Lookups(alsa'.calls, ctl_array[i].name) # {}
                     /\ ctl_array[i].name \in mixer /\ ValueFits(ctl_array[i]) =>
                           /\ ctl_ref_valid(ctl_array'[i])
                           /\ Touches(alsa'.calls, ctl_array[i].name) # {}]_vars

\* an application has refreshed the list, found the second control of the
\* path, which the card did not have at the load, and written it
C25_Witness ==
    /\ last.op = "apply_ctls_l" /\ last.ok
    /\ Len(ctl_array) = 2 /\ ctl_ref_valid(ctl_array[2])
    /\ \E k \in CallsOf(alsa.calls, {"mixer_add_new_ctls"}, NoName) :
          /\ k + 1 \in Lookups(alsa.calls, ctl_array[2].name)
          /\ alsa.calls[k + 1].err = 0
          /\ \E w \in Touches(alsa.calls, ctl_array[2].name) : w > k + 1

\* C23: the controls of <pre_init> are written in the step that handles
\* </pre_init>, in which no later element is handled, and in no other step
\* of the parse; the controls of <init> are written once, when the last
\* file has been parsed to its end, and not when the load fails; and an
\* <init> or <pre_init> that follows an <init> ends the load with EINVAL
NewCalls ==
    SubSeq(state'.alsa.calls, Len(state.alsa.calls) + 1,
           Len(state'.alsa.calls))

AtEvent(e) ==
    /\ state.pc = "do_parse" /\ state'.pc # "usleep"
    /\ state.pos <= Len(pin.files[state.cur_xml_file])
    /\ pin.files[state.cur_xml_file][state.pos] = e

AtEof ==
    /\ state.pc = "do_parse"
    /\ state.pos > Len(pin.files[state.cur_xml_file])

\* every control of the path is open and written
AllWritten(ctls) ==
    /\ Cardinality(OpenPrefix(ctls)) = Len(ctls)
    /\ WritesIn(NewCalls) = WritesUpTo(ctls, Len(ctls))

\* the controls before the first one that is not open are written
ReachedWritten(ctls) ==
    WritesIn(NewCalls) = WritesUpTo(ctls, Cardinality(OpenPrefix(ctls)))

InitSeenBefore(f, p) ==
    \E q \in 1..(p - 1) : IsStart(pin.files[f][q], "init")

AfterInit(f, p) ==
    /\ IsStart(pin.files[f][p], "init") \/ IsStart(pin.files[f][p], "pre_init")
    /\ InitSeenBefore(f, p)

NothingAfterInit ==
    \A k \in 1..Len(state.hist) :
        AfterInit(state.hist[k][1], state.hist[k][2]) =>
            /\ k = Len(state.hist)
            /\ state.pc = "done" /\ state.mgr = "NULL" /\ state.errno = EINVAL

C23_InitAndPreInit ==
    /\ []NothingAfterInit
    /\ [][/\ AtEvent(EndTag("pre_init")) =>
               /\ AllWritten(state'.preinit_path)
               /\ state'.hist = Append(state.hist,
                                       <<state.cur_xml_file, state.pos>>)
          /\ (state.pc = "do_parse" /\ ~AtEvent(EndTag("pre_init")) /\ ~AtEof)
                => WritesIn(NewCalls) = <<>>
          /\ AtEof =>
                IF state'.mgr = "mgr" THEN AllWritten(state'.init_path)
                ELSE WritesIn(NewCalls) = <<>>]_vars

\* C23 as amended: what is written of a path are its controls before the
\* first one that does not open
C23_InitAndPreInitReached ==
    /\ []NothingAfterInit
    /\ [][/\ AtEvent(EndTag("pre_init")) =>
               /\ ReachedWritten(state'.preinit_path)
               /\ state'.hist = Append(state.hist,
                                       <<state.cur_xml_file, state.pos>>)
          /\ (state.pc = "do_parse" /\ ~AtEvent(EndTag("pre_init")) /\ ~AtEof)
                => WritesIn(NewCalls) = <<>>
          /\ AtEof =>
                IF state'.mgr = "mgr" THEN ReachedWritten(state'.init_path)
                ELSE WritesIn(NewCalls) = <<>>]_vars

\* a load has ended with a manager: two controls of <pre_init> were written
\* before the <init> was read and the control of <init> was written last
C23_Witness ==
    /\ state.pc = "done" /\ state.mgr = "mgr"
    /\ Len(state.preinit_path) = 2 /\ Len(state.init_path) = 1
    /\ Len(WritesIn(state.alsa.calls)) > 2
    /\ \E k \in 1..Len(state.alsa.calls) :
          /\ state.alsa.calls[k].call = "mixer_close"
          /\ Len(WritesIn(SubSeq(state.alsa.calls, 1, k))) >= 2
          /\ Len(WritesIn(SubSeq(state.alsa.calls, k, Len(state.alsa.calls))))
                >= 1

\* C26: once the mixer has been closed and opened again at </pre_init>, no
\* control read so far has a valid ctl_ref, and every control written after
\* that was found by a lookup of its name made after the mixer was opened
\* again
Reopened(calls, k) ==
    /\ k > 1
    /\ calls[k].call = "mixer_open"
    /\ calls[k - 1].call = "mixer_close"

WrittenAfterLookup ==
    \A w \in 1..Len(state.alsa.calls) :
        \A k \in 1..(w - 1) :
            IsWrite(state.alsa.calls[w]) /\ Reopened(state.alsa.calls, k)
                => \E j \in (k + 1)..(w - 1) :
                      /\ state.alsa.calls[j].call = "mixer_get_ctl_by_name"
                      /\ state.alsa.calls[j].ctl = state.alsa.calls[w].ctl
                      /\ state.alsa.calls[j].err = 0

C26_RebindAfterReopen ==
    /\ (state.alsa.calls # <<>>
          /\ Reopened(state.alsa.calls, Len(state.alsa.calls)))
          => \A i \in 1..Len(state.preinit_path) :
                ~ctl_ref_valid(state.preinit_path[i])
    /\ WrittenAfterLookup

\* C31: whatever calls are made, a release_stream of a stream nobody holds
\* included, no ref_count is ever negative; hence a successful acquire of a
\* stream nobody holds takes its ref_count from 0 to 1.
C31_RefCountNonNegative ==
    /\ [] (\A s \in Streams : ref_count[s] >= 0)
    /\ [][ ( /\ last'.op \in {"get_stream", "get_named_stream"}
             /\ last'.ok
             /\ held[last'.s] = 0 )
           => (ref_count[last'.s] = 0 /\ ref_count'[last'.s] = 1) ]_vars

\* The 'off' controls of device d were written by the call executed last
OffWritten(d) ==
    \E i \in 1..Len(last.ev) : /\ last.ev[i].dev = d
                               /\ last.ev[i].id = e_path_id_off
                               /\ last.ev[i].wrote

\* The call executed last was an apply_route that took a stream from one
\* non-empty set of the bits of device d to another
Rerouted(d) ==
    /\ last'.op = "apply_route" /\ last'.ok
    /\ Covers(d, last'.s, current_devices[last'.s])
    /\ Covers(d, last'.s, current_devices'[last'.s])

\* C32: no call writes the 'off' controls of a device that an open stream
\* is still routed to when the call returns; an apply_route that takes a
\* stream from one non-empty set of the bits of a device to another writes
\* no 'off' controls of the device and leaves its use_count as it was.
C32_NoPrematureOff ==
    [][ \A d \in Devs :
          /\ (OffWritten(d)' /\ ~IsGlobal(d)) =>
                ~\E s \in Streams : /\ ref_count'[s] > 0
                                    /\ Covers(d, s, current_devices'[s])
          /\ Rerouted(d) =>
                (~OffWritten(d)' /\ use_count'[d] = use_count[d]) ]_vars

\* Every stream is released
Quiescent == \A s \in Streams : ref_count[s] = 0

\* The path the call executed last ran last on device d is not 'on'
LastRunNotOn(d) ==
    \A i \in 1..Len(last.ev) :
        (last.ev[i].dev = d /\ last.ev[i].wrote /\ last.ev[i].id = e_path_id_on)
            => \E j \in (i + 1)..Len(last.ev) :
                   last.ev[j].dev = d /\ last.ev[j].wrote

\* C33: in a configuration whose devices all declare 'on' and 'off', and
\* with callers that use only streams they hold, whenever every stream is
\* released every use_count is 0, every current_devices is 0 and the path
\* the last call ran last on a device is not its 'on' path.
C33_Quiescence ==
    ((\A d \in Devs : HasOnOff(d)) /\ Quiescent) =>
        /\ \A d \in Devs : use_count[d] = 0
        /\ \A s \in Streams : current_devices[s] = {}
        /\ \A d \in Devs : LastRunNotOn(d)

\* Device d is of the other direction than stream s
OtherDirection(d, s) ==
    /\ ~IsGlobal(d)
    /\ (31 \in device_array[d].type) # stream_is_input(stream_array[s])

\* C34: apply_route, get_stream and release_stream on an output stream
\* request no path of an input device and change no use_count of one, and
\* on an input stream none of an output device, whatever the order in which
\* the devices are declared.
C34_DirectionIsolation ==
    [][ (last'.op \in {"apply_route", "get_stream", "release_stream"}
            /\ last'.s # NoStream) =>
          \A d \in Devs :
              OtherDirection(d, last'.s) =>
                  /\ use_count'[d] = use_count[d]
                  /\ \A i \in 1..Len(last'.ev) : last'.ev[i].dev # d ]_vars

\* C35: among the path requests of an apply_route or a release_stream, on
\* every device whose routing is torn down the stream's custom disable path
\* is requested before the device's 'off' path.
C35_DisableBeforeOff ==
    (last.op \in {"apply_route", "release_stream"}) =>
        \A i \in EvIdx, j \in EvIdx :
            ( /\ last.ev[i].dev = last.ev[j].dev
              /\ last.ev[i].phase \in {"disabling", "release", "release_global"}
              /\ last.ev[j].phase = last.ev[i].phase
              /\ last.ev[i].id = stream_array[last.s].disable_path
              /\ last.ev[i].id >= e_path_id_custom_base
              /\ last.ev[j].id = e_path_id_off ) => i < j

\* The positions at which a thread holds the manager's mutex
LockedPcs == {"apply_route:locked", "get_stream:locked",
              "get_named_stream:locked", "release_stream:locked",
              "apply_use_case:locked"}

ValidFor(s, devices) ==
    IF devices = {} THEN {}
    ELSE IF stream_is_input(stream_array[s])
    THEN (devices \cap AUDIO_DEVICE_IN_ALL) \cup AUDIO_DEVICE_BIT_IN
    ELSE devices \cap AUDIO_DEVICE_OUT_ALL

\* C37: when get_stream(devices, ..) has returned a stream, the route of
\* that stream is the requested mask restricted to the valid device bits of
\* its direction, also when the stream was open with another route before;
\* get_named_stream changes no route and requests no path of a device
\* other than the global one.
C37_GetStreamRoutes ==
    [][ /\ (last'.op = "get_stream" /\ last'.ok) =>
              current_devices'[last'.s] = ValidFor(last'.s, last'.devices)
        /\ (last'.op = "get_named_stream") =>
              /\ current_devices' = current_devices
              /\ \A i \in 1..Len(last'.ev) : IsGlobal(last'.ev[i].dev) ]_vars

\* get_stream has just handed out a stream a second time and has switched
\* off a device of its former route.
C37_Witness ==
    /\ last.op = "get_stream" /\ last.ok
    /\ ref_count[last.s] = 2
    /\ current_devices[last.s] = last.devices
    /\ \E i \in EvIdx : /\ last.ev[i].phase = "disabling"
                        /\ last.ev[i].id = e_path_id_off
                        /\ last.ev[i].wrote

\* The elements of the file that are open after its first n events
RECURSIVE OpenElems(_, _)
OpenElems(events, n) ==
    IF n = 0 THEN 0
    ELSE OpenElems(events, n - 1)
         + (CASE events[n].tag = "start" -> 1
              [] events[n].tag = "end" -> -1
              [] OTHER -> 0)

\* stack.index of the parse state
StackIndex == Len(state.stack) - 1

\* C38: once do_parse has set up the stack, whatever the nesting of the
\* file, legal or not, the stack index is one of 0..MAX_PARSE_DEPTH-1, the
\* entry the handlers use is one of the array, and while no handler has
\* failed the index is the number of elements open at the read position:
\* after the end of an element it is what it was before its start.
C38_StackIndexInRange ==
    state.stack # <<>> =>
       /\ StackIndex \in 0..(MAX_PARSE_DEPTH - 1)
       /\ (state.pc = "do_parse" /\ state.parse_error = 0
              /\ state.xml_err = "XML_ERROR_NONE")
            => StackIndex = OpenElems(pin.files[state.cur_xml_file], state.pos - 1)

\* A <ctl> of a <case>, at the deepest index, held an element, which was
\* refused with the index left where it was
C38_Witness ==
    /\ state.pc = "done"
    /\ StackIndex = MAX_PARSE_DEPTH - 1
    /\ state.stack[Len(state.stack)].elem_index = "e_elem_ctl"
    /\ state.parse_error = -EINVAL
    /\ state.cause = "grammar"

\* The files the load has parsed so far, in part or to their end
ParsedFiles(st) == {st.hist[k][1] : k \in 1..Len(st.hist)}

\* C39: the file parse_config_file opens after a redirection of the codec
\* probe is none of the files the load has parsed before, so a load parses
\* each of its files once and its loop of redirections ends.
C39_NoFileParsedTwice ==
    [][(state.pc = "open_config_file" /\ state'.pc = "do_parse")
          => state'.cur_xml_file \notin ParsedFiles(state)]_vars

\* The masked devices a thread in the locked part of apply_route stores
RouteStored(t) ==
    IF tpc[t] = "apply_route:locked"
    THEN route_devices(targ[t].s, targ[t].devices).devices
    ELSE old_route_devices(targ[t].s, targ[t].devices)

\* C40: apply_route, in both implementations, decides what to enable and
\* to disable from current_devices as it is under the lock: when a thread
\* runs the locked part of apply_route for the devices the stream is
\* already routed to, as the second of two threads that route the stream
\* to the same devices does, no use_count changes.
C40_RouteAppliedOnce ==
    [][\A t \in Threads :
          (/\ tpc[t] \in {"apply_route:locked", "old_apply_route:locked"}
           /\ tpc'[t] = "idle"
           /\ RouteStored(t) = current_devices[targ[t].s])
             => use_count' = use_count]_vars

====
